---- MODULE Spec2Model ----
(***************************************************************************)
(* Model of the local persistence core of vibing2-desktop                  *)
(* (src-tauri/src/commands.rs, database.rs, auth.rs, main.rs): the project *)
(* store, the message table and the settings table behind the Tauri        *)
(* commands, the credential resolver, and startup with its schema          *)
(* migration.                                                              *)
(*                                                                         *)
(* Tables are sets of rows.  Text timestamps produced by                   *)
(* Utc::now().to_rfc3339() are UTC strings of one shape whose text order   *)
(* is the order of the instants, so a timestamp is modelled by the instant *)
(* (a tick count) and compared as a number.  The project and settings      *)
(* commands run one at a time; each command that reads Utc::now() reads an *)
(* instant later than every instant read before it.  The credential        *)
(* commands interleave at their wait for the remote service, and the       *)
(* spawned init_database task interleaves with setup and the commands at   *)
(* each of its statements.                                                 *)
(* SpecTx and SpecPool run save_project statement by statement, several   *)
(* invocations at a time, each on its own connection and transaction;      *)
(* SpecLoad adds load_project and delete_project, statement by statement.  *)
(* SpecKeychain probes the keychain entry by entry, SpecSettingsRows runs  *)
(* load_settings on rows of any content, SpecFrame runs the commands on a  *)
(* store that is not empty, and SpecCell interleaves the callers of        *)
(* get_pool.                                                               *)
(***************************************************************************)
EXTENDS Integers, Sequences, FiniteSets, Bags, TLC

VARIABLES
    projects,   \* rows of table projects
    messages,   \* rows of table messages
    settings,   \* rows of table settings
    clock,      \* the last instant a command has read from Utc::now()
    last,       \* the last command: its name, argument and returned Result
    credentials,\* rows of table auth_credentials
    keychain,   \* the OS credential store: the password of each probed entry
    inflight,   \* the commands that are at an await: waiting for the remote
                \* validation, or save_project calls between two statements
    schema,     \* the tables that exist in the database file
    users,      \* rows of table users
    startup,    \* how far main() and the spawned init_database task have got
    checked_out,\* the connections of the pool that are checked out
    DB_POOL     \* the cell of the shared pool, the pools opened so far, and
                \* whether a caller of get_pool is running the initialiser

vars == <<projects, messages, settings, clock, last,
          credentials, keychain, inflight, schema, users, startup, checked_out, DB_POOL>>

(***************************************************************************)
(* Bounds of the model.                                                    *)
(***************************************************************************)
MaxClock == 2       \* instants 1..MaxClock can be read by commands
TicksPerMs == 2     \* instants per millisecond of timestamp_millis()
MaxInflight == 2    \* commands that can wait for a validation reply at once

(***************************************************************************)
(* Option<T> and Result<T, String>.                                        *)
(***************************************************************************)
None == <<>>
Some(x) == <<x>>
Ok(v) == [ok |-> TRUE, val |-> v]
Err(e) == [ok |-> FALSE, err |-> e]

Range(s) == {s[i] : i \in DOMAIN s}

(***************************************************************************)
(* generate_id: format!("{}-{}{}", prefix, timestamp, random_suffix).  An  *)
(* id string is modelled by its three parts.  The suffix is six draws of   *)
(* rng.gen_range(0..36); only whether two suffixes are equal matters, so a *)
(* suffix is a number, and a draw is either a suffix an id of the table    *)
(* already has (same prefix, same millisecond) or the least unused one.    *)
(***************************************************************************)
\* instants are numbered from 1; instants 1..TicksPerMs lie in millisecond 0
timestamp_millis(t) == (t - 1) \div TicksPerMs
generate_id(prefix, timestamp, random_suffix) == <<prefix, timestamp, random_suffix>>
starts_with(id, prefix) == id[1] = prefix

UsedSuffixes(rows, prefix, timestamp) ==
    {r.id[3] : r \in {x \in rows : x.id[1] = prefix /\ x.id[2] = timestamp}}
FreshSuffix(rows, prefix, timestamp) ==
    LET used == UsedSuffixes(rows, prefix, timestamp)
    IN CHOOSE n \in 1..(Cardinality(used) + 1) :
           n \notin used /\ \A k \in 1..(n - 1) : k \in used
SuffixDraws(rows, prefix, timestamp) ==
    UsedSuffixes(rows, prefix, timestamp) \cup {FreshSuffix(rows, prefix, timestamp)}

\* ids the UI can pass that no generate_id call produced
SuppliedIds == {<<"proj", 123, 0>>}

(***************************************************************************)
(* Inputs of save_project.                                                 *)
(***************************************************************************)
MsgPool ==
    { [id |-> "msg-1", role |-> "user", content |-> "Create a todo app"],
      [id |-> "msg-2", role |-> "assistant", content |-> "I'll create a todo app for you."] }

\* lists of at most two messages, a list that repeats a message id included
MessageLists == UNION {[1..n -> MsgPool] : n \in {0, 1, 2}}

FieldProfiles ==
    { [name |-> "Test Project", project_type |-> "web-app",
       active_agents |-> "[]", current_code |-> None],
      [name |-> "Updated Name", project_type |-> "mobile-app",
       active_agents |-> "[\"agent1\"]", current_code |-> Some("console.log('Updated');")] }

SaveProjectRequest(project_id, f, msgs) ==
    [project_id |-> project_id, name |-> f.name, project_type |-> f.project_type,
     active_agents |-> f.active_agents, messages |-> msgs, current_code |-> f.current_code]

IdInputs == {r.id : r \in projects} \cup SuppliedIds

SaveProjectRequests ==
    {SaveProjectRequest(pid, f, msgs) :
        pid \in {None} \cup {Some(i) : i \in IdInputs}, f \in FieldProfiles, msgs \in MessageLists}

(***************************************************************************)
(* The statements of save_project, on the transaction's view of the store. *)
(***************************************************************************)
Db(p, m) == [projects |-> p, messages |-> m]

\* SELECT id FROM projects WHERE id = ?
ProjectExists(db, project_id) == \E r \in db.projects : r.id = project_id

\* UpdateProject with created_at in its SET list
UpdateProjectTouchesCreated(db, project_id, request, now) ==
    [db EXCEPT !.projects =
        {IF r.id = project_id
            THEN [r EXCEPT !.name = request.name,
                           !.project_type = request.project_type,
                           !.active_agents = request.active_agents,
                           !.current_code = request.current_code,
                           !.created_at = now,
                           !.updated_at = now]
            ELSE r : r \in db.projects}]

\* UPDATE projects SET name, project_type, active_agents, current_code, updated_at WHERE id = ?
UpdateProject(db, project_id, request, now) ==
    [db EXCEPT !.projects =
        {IF r.id = project_id
            THEN [r EXCEPT !.name = request.name,
                           !.project_type = request.project_type,
                           !.active_agents = request.active_agents,
                           !.current_code = request.current_code,
                           !.updated_at = now]
            ELSE r : r \in db.projects}]

\* DeleteMessages with no WHERE clause
DeleteMessagesAll(db, project_id) == [db EXCEPT !.messages = {}]

\* DeleteMessages with the DELETE left out
DeleteMessagesSkipped(db, project_id) == db

\* DELETE FROM messages WHERE project_id = ?
DeleteMessages(db, project_id) ==
    [db EXCEPT !.messages = {m \in db.messages : m.project_id # project_id}]

\* INSERT INTO projects (...) VALUES (?, ?, ?, ?, ?, 'local-user', ?, ?); the
\* columns not named take the defaults of the schema
InsertProject(db, project_id, request, now) ==
    [db EXCEPT !.projects = db.projects \cup
        {[id |-> project_id, name |-> request.name, description |-> None,
          project_type |-> request.project_type, active_agents |-> request.active_agents,
          current_code |-> request.current_code, visibility |-> "PRIVATE",
          user_id |-> "local-user", created_at |-> now, updated_at |-> now]}]

\* MessageConstraintsOk of a table messages whose id is not a key
MessageConstraintsNoPrimaryKey(db, message, project_id) ==
    \E r \in db.projects : r.id = project_id

\* the constraints of table messages: id is the primary key, project_id
\* references an existing project
MessageConstraintsOk(db, message, project_id) ==
    /\ \A m \in db.messages : m.id # message.id
    /\ \E r \in db.projects : r.id = project_id

\* INSERT INTO messages (id, role, content, project_id, created_at) VALUES (?, ?, ?, ?, ?)
InsertMessage(db, message, project_id, now) ==
    [db EXCEPT !.messages = db.messages \cup
        {[id |-> message.id, role |-> message.role, content |-> message.content,
          project_id |-> project_id, created_at |-> now]}]

\* the loop over request.messages from message i on; stops at the first
\* statement that fails (a constraint, or the failure the backend reports at message failAt.index)
RECURSIVE InsertMessages(_, _, _, _, _, _)
InsertMessages(db, msgs, i, project_id, now, failAt) ==
    IF i > Len(msgs) THEN [db |-> db, res |-> Ok(project_id)]
    ELSE IF (failAt.stmt = "message" /\ failAt.index = i) \/ ~MessageConstraintsOk(db, msgs[i], project_id)
        THEN [db |-> db, res |-> Err("Failed to insert message")]
        ELSE InsertMessages(InsertMessage(db, msgs[i], project_id, now),
                            msgs, i + 1, project_id, now, failAt)

\* where the backend can make a statement of the transaction fail ("none":
\* no statement fails for a reason other than a constraint)
FailPoints(db, request, project_id) ==
    {[stmt |-> s, index |-> 0] : s \in {"none", "begin", "check", "commit"}}
        \cup {[stmt |-> s, index |-> 0] :
                s \in IF ProjectExists(db, project_id) THEN {"update", "delete"} ELSE {"insert"}}
        \cup {[stmt |-> "message", index |-> i] : i \in 1..Len(request.messages)}

\* the body of save_project between pool.begin() and tx.commit(): the
\* transaction's working copy of the store and the Result returned
SaveProjectTx(db, request, project_id, now, failAt) ==
    IF failAt.stmt = "begin" THEN [db |-> db, res |-> Err("Failed to start transaction")]
    ELSE IF failAt.stmt = "check" THEN [db |-> db, res |-> Err("Failed to check existing project")]
    ELSE
      LET written ==
            IF ProjectExists(db, project_id)
            THEN IF failAt.stmt = "update"
                 THEN [db |-> db, res |-> Err("Failed to update project")]
                 ELSE LET u == UpdateProject(db, project_id, request, now) IN
                      IF failAt.stmt = "delete"
                      THEN [db |-> u, res |-> Err("Failed to delete old messages")]
                      ELSE [db |-> DeleteMessages(u, project_id), res |-> Ok(project_id)]
            ELSE IF failAt.stmt = "insert"
                 THEN [db |-> db, res |-> Err("Failed to insert project")]
                 ELSE [db |-> InsertProject(db, project_id, request, now), res |-> Ok(project_id)]
      IN IF ~written.res.ok THEN written
         ELSE LET inserted == InsertMessages(written.db, request.messages, 1, project_id, now, failAt) IN
              IF ~inserted.res.ok THEN inserted
              ELSE IF failAt.stmt = "commit"
                   THEN [db |-> inserted.db, res |-> Err("Failed to commit transaction")]
                   ELSE inserted

\* TxOutcome with no rollback: the statements run on the pool, outside a transaction
TxOutcomeNoRollback(before, tx) == tx.db

\* tx.commit() makes the working copy the store; returning through `?` drops
\* the transaction, which rolls it back
TxOutcome(before, tx) == IF tx.res.ok THEN tx.db ELSE before

(***************************************************************************)
(* The database file, the OS credential store and the process.             *)
(***************************************************************************)
\* the tables of run_migrations, in the order of its CREATE TABLE statements
Tables == <<"users", "projects", "project_files", "messages", "settings", "auth_credentials">>

\* INSERT INTO users (id, name, email, password, plan, token_balance)
\*   VALUES ('local-user', 'Local User', 'local@vibing2.app', 'local', 'FREE', 10000)
DefaultUser ==
    [id |-> "local-user", name |-> "Local User", email |-> "local@vibing2.app",
     password |-> "local", plan |-> "FREE", token_balance |-> 10000]

\* the entries read_claude_code_keychain probes
possible_services == <<"com.anthropic.claude-code", "claude-code", "anthropic-claude">>
possible_accounts == <<"default", "api_key", "credentials">>
KeychainEntries == Range(possible_services) \X Range(possible_accounts)
\* no entry has a password: Entry::get_password fails for each
EmptyKeychain == [e \in KeychainEntries |-> None]

\* main() has left setup and the spawned init_database task has returned Ok;
\* pool: DB_POOL holds the connection pool
StartupDone == [main |-> "running", init |-> "done", stmt |-> 0, pool |-> TRUE]

\* DB_POOL once the first get_pool of the process has opened the pool: the
\* cell holds pool 1, the only pool opened; test_mode says whether
\* TEST_DATABASE_PATH is set, calls counts the calls of get_pool and
\* failures the initialisers that have failed
PoolReady ==
    [cell |-> Some(1), opened |-> 1, initialising |-> FALSE, test_mode |-> FALSE,
     calls |-> 0, failures |-> 0]

\* DB_POOL of a process that has not opened a pool: OnceCell::const_new()
PoolEmpty ==
    [cell |-> None, opened |-> 0, initialising |-> FALSE, test_mode |-> FALSE,
     calls |-> 0, failures |-> 0]

\* the store after a first start that went through: every table exists and
\* is empty except users, which holds the default user
Init ==
    /\ projects = {}
    /\ messages = {}
    /\ settings = {}
    /\ clock = 0
    /\ last = [op |-> "none", arg |-> None, res |-> Ok(None)]
    /\ credentials = {}
    /\ keychain = EmptyKeychain
    /\ inflight = EmptyBag
    /\ schema = Range(Tables)
    /\ users = {DefaultUser}
    /\ startup = StartupDone
    /\ checked_out = 0
    /\ DB_POOL = PoolReady

\* ResolveProjectId that ignores the id of the request
ResolveProjectIdGenerated(request, now, random_suffix) ==
    generate_id("proj", timestamp_millis(now), random_suffix)

\* request.project_id.clone().unwrap_or_else(|| generate_id("proj"))
ResolveProjectId(request, now, random_suffix) ==
    IF request.project_id = None
        THEN generate_id("proj", timestamp_millis(now), random_suffix)
        ELSE request.project_id[1]

save_project(request, random_suffix, failAt) ==
    /\ clock < MaxClock
    /\ LET now == clock + 1
           project_id == ResolveProjectId(request, now, random_suffix)
           before == Db(projects, messages)
           tx == SaveProjectTx(before, request, project_id, now, failAt)
           after == TxOutcome(before, tx)
       IN /\ failAt \in FailPoints(before, request, project_id)
          /\ projects' = after.projects
          /\ messages' = after.messages
          /\ clock' = now
          /\ last' = [op |-> "save_project", arg |-> request, res |-> tx.res]
    /\ UNCHANGED <<settings, credentials, keychain, inflight, schema, users, startup, checked_out, DB_POOL>>

(***************************************************************************)
(* Queries.  ORDER BY leaves the order of rows with equal keys open, so a  *)
(* query returns any one of the orders that respect its key.               *)
(***************************************************************************)
Orderings(rows) ==
    {f \in [1..Cardinality(rows) -> rows] : \A i, j \in DOMAIN f : i # j => f[i] # f[j]}

\* UpdatedLater for ORDER BY updated_at ASC
UpdatedEarlier(a, b) == a.updated_at < b.updated_at

CreatedEarlier(a, b) == a.created_at < b.created_at
UpdatedLater(a, b) == a.updated_at > b.updated_at

\* SELECT id, role, content FROM messages WHERE project_id = ? ORDER BY created_at ASC
FetchMessages(m, project_id) ==
    {[i \in DOMAIN f |-> [id |-> f[i].id, role |-> f[i].role, content |-> f[i].content]] :
        f \in {g \in Orderings({x \in m : x.project_id = project_id}) :
                  \A i, j \in DOMAIN g : i < j => ~CreatedEarlier(g[j], g[i])}}

\* the Results load_project(project_id) can return on store (p, m)
LoadProjectResults(p, m, project_id) ==
    LET rows == {r \in p : r.id = project_id} IN
    IF rows = {} THEN {Err("Project not found")}
    ELSE {Ok([id |-> row.id, name |-> row.name, description |-> row.description,
              project_type |-> row.project_type, active_agents |-> row.active_agents,
              current_code |-> row.current_code, visibility |-> row.visibility,
              user_id |-> row.user_id, created_at |-> row.created_at,
              updated_at |-> row.updated_at, messages |-> msgs]) :
            row \in rows, msgs \in FetchMessages(m, project_id)}

\* ListProjectsResults with LIMIT 1
ListProjectsLimitOne(p) ==
    {Ok(IF Len(f) = 0 THEN f ELSE <<f[1]>>) :
        f \in {g \in Orderings({r \in p : r.user_id = "local-user"}) :
                  \A i, j \in DOMAIN g : i < j => ~UpdatedLater(g[j], g[i])}}

\* SELECT ... FROM projects WHERE user_id = 'local-user' ORDER BY updated_at DESC
ListProjectsResults(p) ==
    {Ok(f) :
        f \in {g \in Orderings({r \in p : r.user_id = "local-user"}) :
                  \A i, j \in DOMAIN g : i < j => ~UpdatedLater(g[j], g[i])}}

\* OnDeleteCascade with foreign keys not enforced
NoCascade(p, m) == m

\* FOREIGN KEY (project_id) REFERENCES projects(id) ON DELETE CASCADE
OnDeleteCascade(p, m) == {x \in m : \E r \in p : r.id = x.project_id}

load_project(project_id) ==
    /\ \E res \in LoadProjectResults(projects, messages, project_id) :
           last' = [op |-> "load_project", arg |-> project_id, res |-> res]
    /\ UNCHANGED <<projects, messages, settings, clock>>
    /\ UNCHANGED <<credentials, keychain, inflight, schema, users, startup, checked_out, DB_POOL>>

\* a table that does not exist yet fails the statement that names it
list_projects ==
    /\ \E res \in (IF "projects" \in schema THEN ListProjectsResults(projects)
                                            ELSE {Err("Failed to fetch projects")}) :
           last' = [op |-> "list_projects", arg |-> None, res |-> res]
    /\ UNCHANGED <<projects, messages, settings, clock>>
    /\ UNCHANGED <<credentials, keychain, inflight, schema, users, startup, checked_out, DB_POOL>>

\* delete_project without the rows_affected() check
delete_project_unchecked(project_id) ==
    LET remaining == {r \in projects : r.id # project_id}
    IN /\ projects' = remaining
       /\ messages' = OnDeleteCascade(remaining, messages)
       /\ last' = [op |-> "delete_project", arg |-> project_id, res |-> Ok(None)]
       /\ UNCHANGED <<settings, clock>>
       /\ UNCHANGED <<credentials, keychain, inflight, schema, users, startup, checked_out, DB_POOL>>

delete_project(project_id) ==
    LET remaining == {r \in projects : r.id # project_id}
        rows_affected == Cardinality(projects \ remaining)
    IN /\ projects' = remaining
       /\ messages' = OnDeleteCascade(remaining, messages)
       /\ last' = [op |-> "delete_project", arg |-> project_id,
                   res |-> IF rows_affected = 0 THEN Err("Project not found") ELSE Ok(None)]
       /\ UNCHANGED <<settings, clock>>
       /\ UNCHANGED <<credentials, keychain, inflight, schema, users, startup, checked_out, DB_POOL>>

(***************************************************************************)
(* The settings store.  Every value is stored as text.                     *)
(***************************************************************************)
SettingsInputs ==
    { [anthropic_api_key |-> None, theme |-> "dark", auto_save |-> TRUE,
       default_project_path |-> "~/Documents/Vibing2Projects"],
      [anthropic_api_key |-> Some("saved-key"), theme |-> "light", auto_save |-> FALSE,
       default_project_path |-> "/saved/path"],
      [anthropic_api_key |-> Some(""), theme |-> "solarized", auto_save |-> TRUE,
       default_project_path |-> "/custom/path"] }

\* BoolToString writing 1 and 0
BoolToStringNumeric(b) == IF b THEN "1" ELSE "0"

\* ParseBool reading every value but "true" as false
ParseBoolFalsy(v) == IF v = "true" THEN Some(TRUE) ELSE Some(FALSE)

\* bool::to_string and str::parse::<bool>
BoolToString(b) == IF b THEN "true" ELSE "false"
ParseBool(v) == IF v = "true" THEN Some(TRUE) ELSE IF v = "false" THEN Some(FALSE) ELSE None

\* Option::unwrap_or_default (of a String) and Option::unwrap_or
UnwrapOrDefault(opt) == IF opt = None THEN "" ELSE opt[1]
UnwrapOr(opt, default) == IF opt = None THEN default ELSE opt[1]

\* settings_map: the four (key, value) pairs in the order they are written
SettingsMap(s) ==
    << <<"anthropic_api_key", UnwrapOrDefault(s.anthropic_api_key)>>,
       <<"theme", s.theme>>,
       <<"auto_save", BoolToString(s.auto_save)>>,
       <<"default_project_path", s.default_project_path>> >>

\* Upsert without the ON CONFLICT clause, on a key that is not UNIQUE
UpsertInsertOnly(tbl, id, key, value, now) ==
    tbl \cup {[id |-> id, key |-> key, value |-> value, updated_at |-> now]}

\* INSERT INTO settings (id, key, value, updated_at) VALUES (?, ?, ?, ?)
\*   ON CONFLICT(key) DO UPDATE SET value = ?, updated_at = ?
Upsert(tbl, id, key, value, now) ==
    IF \E r \in tbl : r.key = key
        THEN {IF r.key = key THEN [r EXCEPT !.value = value, !.updated_at = now] ELSE r : r \in tbl}
        ELSE tbl \cup {[id |-> id, key |-> key, value |-> value, updated_at |-> now]}

\* how save_settings can fail at statement `index`: the backend fails it, or
\* generate_id draws the suffix an id of the table has (id is the primary
\* key, which ON CONFLICT(key) does not cover)
SettingsFailPoints ==
    {[index |-> 0, cause |-> "none", suffix |-> 0]}
        \cup {[index |-> i, cause |-> "backend", suffix |-> 0] : i \in 1..4}
        \cup {[index |-> i, cause |-> "id", suffix |-> k] : i \in 1..4, k \in 1..4}

\* the loop over settings_map from pair i on, each statement run on the pool
\* by itself: what is written stays written when a later statement fails
RECURSIVE UpsertSettings(_, _, _, _, _)
UpsertSettings(tbl, map, i, now, failAt) ==
    IF i > Len(map) THEN [tbl |-> tbl, res |-> Ok(None), feasible |-> failAt.index = 0]
    ELSE LET ts == timestamp_millis(now)
             suffix == IF failAt.index = i /\ failAt.cause = "id"
                          THEN failAt.suffix
                          ELSE FreshSuffix(tbl, "setting", ts)
             id == generate_id("setting", ts, suffix)
         IN IF failAt.index = i
            THEN [tbl |-> tbl, res |-> Err("Failed to save setting"),
                  feasible |-> failAt.cause = "id" => \E r \in tbl : r.id = id]
            ELSE UpsertSettings(Upsert(tbl, id, map[i][1], map[i][2], now),
                                map, i + 1, now, failAt)

save_settings(s, failAt) ==
    /\ clock < MaxClock
    /\ LET now == clock + 1
           run == UpsertSettings(settings, SettingsMap(s), 1, now, failAt)
       IN /\ run.feasible
          /\ "settings" \notin schema => failAt.index = 1 /\ failAt.cause = "backend"
          /\ settings' = run.tbl
          /\ clock' = now
          /\ last' = [op |-> "save_settings", arg |-> s, res |-> run.res]
    /\ UNCHANGED <<projects, messages>>
    /\ UNCHANGED <<credentials, keychain, inflight, schema, users, startup, checked_out, DB_POOL>>

\* the value of the row with this key, if there is one (key is UNIQUE)
SettingValue(tbl, key) ==
    IF \E r \in tbl : r.key = key THEN Some((CHOOSE r \in tbl : r.key = key).value) ELSE None

\* LoadSettings with another default theme
LoadSettingsLightDefault(tbl) ==
    LET api == SettingValue(tbl, "anthropic_api_key")
        theme == SettingValue(tbl, "theme")
        auto == SettingValue(tbl, "auto_save")
        path == SettingValue(tbl, "default_project_path")
    IN [anthropic_api_key |-> IF api # None /\ api[1] # "" THEN Some(api[1]) ELSE None,
        theme |-> UnwrapOr(theme, "light"),
        auto_save |-> IF auto = None THEN TRUE ELSE UnwrapOr(ParseBool(auto[1]), TRUE),
        default_project_path |-> UnwrapOr(path, "~/Documents/Vibing2Projects")]

\* the Settings load_settings builds from the rows of the table
LoadSettings(tbl) ==
    LET api == SettingValue(tbl, "anthropic_api_key")
        theme == SettingValue(tbl, "theme")
        auto == SettingValue(tbl, "auto_save")
        path == SettingValue(tbl, "default_project_path")
    IN [anthropic_api_key |-> IF api # None /\ api[1] # "" THEN Some(api[1]) ELSE None,
        theme |-> UnwrapOr(theme, "dark"),
        auto_save |-> IF auto = None THEN TRUE ELSE UnwrapOr(ParseBool(auto[1]), TRUE),
        default_project_path |-> UnwrapOr(path, "~/Documents/Vibing2Projects")]

load_settings ==
    /\ last' = [op |-> "load_settings", arg |-> None,
                res |-> IF "settings" \in schema THEN Ok(LoadSettings(settings))
                                                ELSE Err("Failed to fetch settings")]
    /\ UNCHANGED <<projects, messages, settings, clock>>
    /\ UNCHANGED <<credentials, keychain, inflight, schema, users, startup, checked_out, DB_POOL>>

(***************************************************************************)
(* Credentials (auth.rs).  An API key is a string.  A keychain password is *)
(* its text together with the JSON object the text denotes, if it denotes  *)
(* one.  Error texts are modelled up to the detail appended by format!.    *)
(* Row auth_credentials is modelled without its timestamps.                *)
(***************************************************************************)
\* str::starts_with
str_starts_with(text, prefix) ==
    Len(text) >= Len(prefix) /\ SubSeq(text, 1, Len(prefix)) = prefix

\* serde_json::from_str::<ClaudeCredentials>: api_key is required, email and
\* subscription_tier are Option
ParseClaudeCredentials(password) ==
    IF password.json = None THEN Err("expected value")
    ELSE LET doc == password.json[1] IN
         IF "api_key" \notin DOMAIN doc THEN Err("missing field api_key")
         ELSE Ok([api_key |-> doc.api_key,
                  email |-> IF "email" \in DOMAIN doc THEN Some(doc.email) ELSE None,
                  subscription_tier |-> IF "subscription_tier" \in DOMAIN doc
                                           THEN Some(doc.subscription_tier) ELSE None])

\* ProbeOrder with the loops exchanged: accounts outer, services inner
ProbeOrderAccountsOuter ==
    [i \in 1..(Len(possible_services) * Len(possible_accounts)) |->
        <<possible_services[((i - 1) % Len(possible_services)) + 1],
          possible_accounts[((i - 1) \div Len(possible_services)) + 1]>>]

\* for service in &possible_services { for account in &possible_accounts {
ProbeOrder ==
    [i \in 1..(Len(possible_services) * Len(possible_accounts)) |->
        <<possible_services[((i - 1) \div Len(possible_accounts)) + 1],
          possible_accounts[((i - 1) % Len(possible_accounts)) + 1]>>]

\* the body of the loops from the i-th probed entry on
RECURSIVE ProbeFrom(_, _)
ProbeFrom(kc, i) ==
    IF i > Len(ProbeOrder) THEN Err("No Claude Code credentials found in keychain")
    ELSE LET password == kc[ProbeOrder[i]] IN
         IF password = None THEN ProbeFrom(kc, i + 1)
         ELSE IF ParseClaudeCredentials(password[1]).ok
                 THEN Ok(ParseClaudeCredentials(password[1]).val)
         ELSE IF str_starts_with(password[1].text, "sk-ant-")
                 THEN Ok([api_key |-> password[1].text, email |-> None,
                          subscription_tier |-> None])
         ELSE ProbeFrom(kc, i + 1)

read_claude_code_keychain(kc) == ProbeFrom(kc, 1)

\* what .send().await gives: a transport error or the status of the response
StatusCodes == {200, 201, 299, 300, 400, 401, 403, 500}
Replies == {Err("transport")} \cup {Ok(status) : status \in StatusCodes}

\* StatusCode::is_success
is_success(status) == status >= 200 /\ status < 300

\* validate_api_key reporting a transport error as a rejected key
validate_api_key_conflating(reply) ==
    IF ~reply.ok THEN Ok(FALSE)
    ELSE IF is_success(reply.val) THEN Ok(TRUE)
    ELSE IF reply.val = 401 THEN Ok(FALSE)
    ELSE Err("Unexpected API response")

\* validate_api_key from what send() gave: 200 = valid key, 401 = invalid
\* key, other = error
validate_api_key(reply) ==
    IF ~reply.ok THEN Err("API request failed")
    ELSE IF is_success(reply.val) THEN Ok(TRUE)
    ELSE IF reply.val = 401 THEN Ok(FALSE)
    ELSE Err("Unexpected API response")

\* load_credentials_from_db without the email column
load_credentials_without_email(tbl, fault) ==
    IF fault THEN Err("Database error")
    ELSE IF \E r \in tbl : r.id = 1
        THEN LET row == CHOOSE r \in tbl : r.id = 1
             IN Ok([api_key |-> row.api_key, email |-> None,
                    subscription_tier |-> row.subscription_tier])
        ELSE Err("No credentials found in database")

\* SELECT api_key, email, subscription_tier FROM auth_credentials WHERE id = 1;
\* fault: the statement fails
load_credentials_from_db(tbl, fault) ==
    IF fault THEN Err("Database error")
    ELSE IF \E r \in tbl : r.id = 1
        THEN LET row == CHOOSE r \in tbl : r.id = 1
             IN Ok([api_key |-> row.api_key, email |-> row.email,
                    subscription_tier |-> row.subscription_tier])
        ELSE Err("No credentials found in database")

\* store_credentials_in_db inserting under the next free id
store_credentials_next_id(tbl, api_key, email, subscription_tier, fault) ==
    IF fault THEN [tbl |-> tbl, res |-> Err("Database error")]
    ELSE [tbl |-> tbl \cup {[id |-> Cardinality(tbl) + 1, api_key |-> api_key,
                             email |-> email, subscription_tier |-> subscription_tier]},
          res |-> Ok(None)]

\* store_credentials_in_db as INSERT OR IGNORE: a stored row is kept
store_credentials_keep_existing(tbl, api_key, email, subscription_tier, fault) ==
    IF fault THEN [tbl |-> tbl, res |-> Err("Database error")]
    ELSE [tbl |-> IF \E r \in tbl : r.id = 1 THEN tbl
                  ELSE tbl \cup {[id |-> 1, api_key |-> api_key, email |-> email,
                                  subscription_tier |-> subscription_tier]},
          res |-> Ok(None)]

\* INSERT OR REPLACE INTO auth_credentials (id, api_key, email,
\*   subscription_tier, ...) VALUES (1, ?1, ?2, ?3, ...)
store_credentials_in_db(tbl, api_key, email, subscription_tier, fault) ==
    IF fault THEN [tbl |-> tbl, res |-> Err("Database error")]
    ELSE [tbl |-> {r \in tbl : r.id # 1}
                    \cup {[id |-> 1, api_key |-> api_key, email |-> email,
                           subscription_tier |-> subscription_tier]},
          res |-> Ok(None)]

\* one entry of a command's trace: a step it took on the keychain, the
\* remote service or the database, the key concerned and how the step ended
TraceEntry(step, api_key, outcome) == [step |-> step, api_key |-> api_key, outcome |-> outcome]
ValidationOutcome(validation) ==
    IF ~validation.ok THEN "error" ELSE IF validation.val THEN "valid" ELSE "invalid"

AuthStatus(authenticated, source, email) ==
    [authenticated |-> authenticated, source |-> source, email |-> email]

\* DatabaseFallback reporting the database source whatever the lookup gave
DatabaseFallbackAlways(tbl, fault, trace) ==
    LET loaded == load_credentials_from_db(tbl, fault) IN
    [tbl |-> tbl, res |-> Ok(AuthStatus(TRUE, "database", None)),
     trace |-> Append(trace, TraceEntry("load", "", "found"))]

\* DatabaseFallback returning the error of a failed lookup to the caller
DatabaseFallbackPropagates(tbl, fault, trace) ==
    LET loaded == load_credentials_from_db(tbl, fault) IN
    IF loaded.ok
    THEN [tbl |-> tbl, res |-> Ok(AuthStatus(TRUE, "database", loaded.val.email)),
          trace |-> Append(trace, TraceEntry("load", loaded.val.api_key, "found"))]
    ELSE [tbl |-> tbl,
          res |-> IF fault THEN loaded ELSE Ok(AuthStatus(FALSE, "none", None)),
          trace |-> Append(trace, TraceEntry("load", "",
                        IF fault THEN "error" ELSE "none"))]

\* check_auth_status from "Try database" on: the lookup of the stored row,
\* whose Err (no row, or a failed statement) leads to source "none"
DatabaseFallback(tbl, fault, trace) ==
    LET loaded == load_credentials_from_db(tbl, fault) IN
    IF loaded.ok
    THEN [tbl |-> tbl, res |-> Ok(AuthStatus(TRUE, "database", loaded.val.email)),
          trace |-> Append(trace, TraceEntry("load", loaded.val.api_key, "found"))]
    ELSE [tbl |-> tbl, res |-> Ok(AuthStatus(FALSE, "none", None)),
          trace |-> Append(trace, TraceEntry("load", "",
                        IF fault THEN "error" ELSE "none"))]

\* KeychainValidated returning the error of the store step
KeychainValidatedStrict(tbl, creds, validation, fault, trace) ==
    LET checked == Append(trace, TraceEntry("validate", creds.api_key,
                                            ValidationOutcome(validation)))
        stored == store_credentials_in_db(tbl, creds.api_key, creds.email,
                                          creds.subscription_tier, fault)
    IN IF validation = Ok(TRUE)
       THEN [tbl |-> stored.tbl,
             res |-> IF stored.res.ok THEN Ok(AuthStatus(TRUE, "keychain", creds.email))
                                      ELSE stored.res,
             trace |-> Append(checked, TraceEntry("store", creds.api_key,
                                 IF stored.res.ok THEN "ok" ELSE "error"))]
       ELSE DatabaseFallback(tbl, fault, checked)

\* KeychainValidated giving up when the keychain key is not valid
KeychainValidatedNoFallback(tbl, creds, validation, fault, trace) ==
    LET checked == Append(trace, TraceEntry("validate", creds.api_key,
                                            ValidationOutcome(validation)))
        stored == store_credentials_in_db(tbl, creds.api_key, creds.email,
                                          creds.subscription_tier, fault)
    IN IF validation = Ok(TRUE)
       THEN [tbl |-> stored.tbl, res |-> Ok(AuthStatus(TRUE, "keychain", creds.email)),
             trace |-> Append(checked, TraceEntry("store", creds.api_key,
                                 IF stored.res.ok THEN "ok" ELSE "error"))]
       ELSE [tbl |-> tbl, res |-> Ok(AuthStatus(FALSE, "none", None)), trace |-> checked]

\* check_auth_status once validate_api_key has returned for the credentials
\* of the keychain: if let Ok(true) = ... { let _ = store...; return Ok(..) }
KeychainValidated(tbl, creds, validation, fault, trace) ==
    LET checked == Append(trace, TraceEntry("validate", creds.api_key,
                                            ValidationOutcome(validation)))
        stored == store_credentials_in_db(tbl, creds.api_key, creds.email,
                                          creds.subscription_tier, fault)
    IN IF validation = Ok(TRUE)
       THEN [tbl |-> stored.tbl, res |-> Ok(AuthStatus(TRUE, "keychain", creds.email)),
             trace |-> Append(checked, TraceEntry("store", creds.api_key,
                                 IF stored.res.ok THEN "ok" ELSE "error"))]
       ELSE DatabaseFallback(tbl, fault, checked)

\* SaveApiKeyValidated storing the key whatever validate_api_key returned
SaveApiKeyUnvalidated(tbl, creds, validation, fault, trace) ==
    LET checked == Append(trace, TraceEntry("validate", creds.api_key,
                                            ValidationOutcome(validation)))
        stored == store_credentials_in_db(tbl, creds.api_key, creds.email, None, fault)
    IN [tbl |-> stored.tbl, res |-> stored.res,
        trace |-> Append(checked, TraceEntry("store", creds.api_key,
                            IF stored.res.ok THEN "ok" ELSE "error"))]

\* save_api_key once validate_api_key has returned
SaveApiKeyValidated(tbl, creds, validation, fault, trace) ==
    LET checked == Append(trace, TraceEntry("validate", creds.api_key,
                                            ValidationOutcome(validation)))
        stored == store_credentials_in_db(tbl, creds.api_key, creds.email, None, fault)
    IN IF ~validation.ok
       THEN [tbl |-> tbl, res |-> Err("Validation failed: " \o validation.err),
             trace |-> checked]
       ELSE IF ~validation.val
       THEN [tbl |-> tbl, trace |-> checked,
             res |-> Err("Invalid API key - authentication failed with Anthropic API")]
       ELSE [tbl |-> stored.tbl, res |-> stored.res,
             trace |-> Append(checked, TraceEntry("store", creds.api_key,
                                 IF stored.res.ok THEN "ok" ELSE "error"))]

\* passwords an entry of the keychain can hold
JsonPassword ==
    [text |-> "{\"api_key\":\"sk-ant-keychain-json\",...}",
     json |-> Some([api_key |-> "sk-ant-keychain-json", email |-> "dev@example.com",
                    subscription_tier |-> "pro"])]
JsonWithoutKey == [text |-> "{\"token\":\"abc\"}", json |-> Some([token |-> "abc"])]
RawKeyPassword == [text |-> "sk-ant-keychain-raw", json |-> None]
OtherPassword == [text |-> "hunter2", json |-> None]

\* the keychains the credential commands are run against
KeychainInputs ==
    { EmptyKeychain,
      (<<"anthropic-claude", "credentials">> :> Some(JsonWithoutKey)) @@ EmptyKeychain,
      (<<"com.anthropic.claude-code", "default">> :> Some(OtherPassword))
          @@ (<<"com.anthropic.claude-code", "api_key">> :> Some(RawKeyPassword))
          @@ EmptyKeychain,
      (<<"claude-code", "api_key">> :> Some(JsonPassword))
          @@ (<<"claude-code", "credentials">> :> Some(RawKeyPassword))
          @@ EmptyKeychain }

\* the (api_key, email) arguments of save_api_key
SaveApiKeyInputs ==
    { [api_key |-> "sk-ant-manual", email |-> Some("user@example.com")],
      [api_key |-> "invalid-key", email |-> None] }

\* a command waiting in validate_api_key for the reply of the remote service
\* CheckedOutAtValidation for a check_auth_status that is given a checked-out
\* connection instead of the pool
CheckedOutAtValidationOne(op) == IF op = "check_claude_auth" THEN 1 ELSE 0

\* the connections a command has checked out of the pool when it awaits
\* validate_api_key: check_claude_auth holds the pool handle only (a
\* statement takes a connection for its own duration), save_api_key has not
\* called get_pool yet
CheckedOutAtValidation(op) == 0

\* conns: the connections the command holds while it waits; remote: whether
\* the service may still answer ("pending") or never will ("silent")
Waiting(op, creds, trace) ==
    [op |-> op, creds |-> creds, trace |-> trace,
     conns |-> CheckedOutAtValidation(op), remote |-> "pending"]

\* check_claude_auth up to the first await on the remote service: with
\* credentials from the keychain it sends the validation request, without
\* them it goes on to the database and returns
check_claude_auth(fault) ==
    /\ LET found == read_claude_code_keychain(keychain) IN
       IF found.ok
       THEN /\ BagCardinality(inflight) < MaxInflight
            /\ inflight' = inflight (+) SetToBag({Waiting("check_claude_auth", found.val,
                              <<TraceEntry("keychain", found.val.api_key, "found")>>)})
            /\ UNCHANGED <<credentials, last>>
       ELSE LET out == DatabaseFallback(credentials, fault,
                                        <<TraceEntry("keychain", "", "none")>>)
            IN /\ last' = [op |-> "check_claude_auth", arg |-> None,
                           res |-> out.res, trace |-> out.trace]
               /\ UNCHANGED <<credentials, inflight>>
    /\ UNCHANGED <<projects, messages, settings, clock, keychain, schema, users, startup, checked_out, DB_POOL>>

\* save_api_key up to the await on the remote service
save_api_key(api_key, email) ==
    /\ BagCardinality(inflight) < MaxInflight
    /\ inflight' = inflight (+) SetToBag({Waiting("save_api_key",
                      [api_key |-> api_key, email |-> email, subscription_tier |-> None],
                      <<>>)})
    /\ UNCHANGED <<credentials, last>>
    /\ UNCHANGED <<projects, messages, settings, clock, keychain, schema, users, startup, checked_out, DB_POOL>>

\* send() gives `reply` to a waiting command, which runs to its return
validation_returns(call, reply, fault) ==
    /\ BagIn(call, inflight)
    /\ call.remote = "pending"
    /\ inflight' = inflight (-) SetToBag({call})
    /\ LET validation == validate_api_key(reply)
           out == IF call.op = "check_claude_auth"
                     THEN KeychainValidated(credentials, call.creds, validation,
                                            fault, call.trace)
                     ELSE SaveApiKeyValidated(credentials, call.creds, validation,
                                              fault, call.trace)
       IN /\ credentials' = out.tbl
          /\ last' = [op |-> call.op,
                      arg |-> IF call.op = "check_claude_auth" THEN None
                              ELSE Some([api_key |-> call.creds.api_key,
                                         email |-> call.creds.email]),
                      res |-> out.res, trace |-> out.trace]
    /\ UNCHANGED <<projects, messages, settings, clock, keychain, schema, users, startup, checked_out, DB_POOL>>

\* the remote service takes the request of a waiting command and never
\* answers it; the reqwest::Client of validate_api_key is built with
\* Client::new() and sets no timeout, so send().await stays pending
remote_never_answers(call) ==
    /\ BagIn(call, inflight)
    /\ call.remote = "pending"
    /\ inflight' = (inflight (-) SetToBag({call}))
                        (+) SetToBag({[call EXCEPT !.remote = "silent"]})
    /\ UNCHANGED <<credentials, last>>
    /\ UNCHANGED <<projects, messages, settings, clock, keychain, schema, users, startup, checked_out, DB_POOL>>

get_credentials(fault) ==
    /\ "auth_credentials" \notin schema => fault
    /\ LET loaded == load_credentials_from_db(credentials, fault)
       IN last' = [op |-> "get_credentials", arg |-> None, res |-> loaded,
                   trace |-> <<TraceEntry("load", IF loaded.ok THEN loaded.val.api_key ELSE "",
                                 IF loaded.ok THEN "found"
                                 ELSE IF fault THEN "error" ELSE "none")>>]
    /\ UNCHANGED <<credentials, inflight>>
    /\ UNCHANGED <<projects, messages, settings, clock, keychain, schema, users, startup, checked_out, DB_POOL>>

(***************************************************************************)
(* Startup (main.rs) and the schema migration (database.rs).  The database *)
(* file is the set of its tables and the rows of each.                     *)
(***************************************************************************)
DatabaseFile ==
    [schema |-> schema, users |-> users, projects |-> projects, project_files |-> {},
     messages |-> messages, settings |-> settings, auth_credentials |-> credentials]

\* the file with `rows` as the rows of `table`
WithRows(file, table, rows) ==
    [schema |-> file.schema,
     users |-> IF table = "users" THEN rows ELSE file.users,
     projects |-> IF table = "projects" THEN rows ELSE file.projects,
     project_files |-> IF table = "project_files" THEN rows ELSE file.project_files,
     messages |-> IF table = "messages" THEN rows ELSE file.messages,
     settings |-> IF table = "settings" THEN rows ELSE file.settings,
     auth_credentials |-> IF table = "auth_credentials" THEN rows
                                                        ELSE file.auth_credentials]

\* CreateTableIfNotExists as DROP TABLE IF EXISTS followed by CREATE TABLE
CreateTableDropFirst(file, table) ==
    [WithRows(file, table, {}) EXCEPT !.schema = file.schema \cup {table}]

\* CREATE TABLE IF NOT EXISTS table (...)
CreateTableIfNotExists(file, table) ==
    IF table \in file.schema THEN file
    ELSE [WithRows(file, table, {}) EXCEPT !.schema = file.schema \cup {table}]

\* SELECT COUNT(*) FROM users; if user_count == 0 { INSERT INTO users ... }
CreateDefaultUser(file) ==
    LET user_count == Cardinality(file.users)
    IN IF user_count = 0 THEN WithRows(file, "users", {DefaultUser}) ELSE file

\* the statements of run_migrations are numbered in the order they run:
\* one CREATE TABLE for each of Tables, then the default user
LastStatement == Len(Tables) + 1
MigrationStatement(file, stmt) ==
    IF stmt <= Len(Tables) THEN CreateTableIfNotExists(file, Tables[stmt])
                           ELSE CreateDefaultUser(file)

\* run_migrations from statement stmt on, no statement failing
RECURSIVE run_migrations(_, _)
run_migrations(file, stmt) ==
    IF stmt > LastStatement THEN file
    ELSE run_migrations(MigrationStatement(file, stmt), stmt + 1)

\* main() enters setup: nothing is spawned yet and DB_POOL is empty
StartupEntry == [main |-> "setup", init |-> "unspawned", stmt |-> 0, pool |-> FALSE]

\* a call that unwinds with a panic instead of returning a Result
Panicked(message) == [ok |-> FALSE, panic |-> message]

\* what the first get_pool of a process can meet: the pool opens, connect
\* fails, dirs::data_local_dir() gives None, or create_dir_all fails
GetPoolOutcomes(cell) ==
    IF cell THEN {"opened"}
    ELSE {"opened", "connect_error", "no_data_dir", "create_dir_failed"}

\* DB_POOL.get_or_try_init: a filled cell is returned as it is; otherwise
\* get_db_path and create_dir_all run, whose expect panics, then connect,
\* whose error is returned; the cell is filled only when the pool opened
get_pool(cell, outcome) ==
    IF cell THEN [cell |-> TRUE, res |-> Ok(None)]
    ELSE IF outcome = "no_data_dir"
        THEN [cell |-> FALSE, res |-> Panicked("Failed to get local data directory")]
    ELSE IF outcome = "create_dir_failed"
        THEN [cell |-> FALSE, res |-> Panicked("Failed to create database directory")]
    ELSE IF outcome = "connect_error"
        THEN [cell |-> FALSE, res |-> Err("unable to open database file")]
    ELSE [cell |-> TRUE, res |-> Ok(None)]

\* the commands served after setup in SpecStartup; the first statement of
\* each is get_pool().await.map_err(...)?
PoolCommands == {"list_projects", "save_settings", "load_settings", "get_credentials"}

\* SELECT id, name, description, project_type, updated_at FROM projects
\*   WHERE user_id = 'local-user' ORDER BY updated_at DESC LIMIT 5
FetchRecentProjects(p) ==
    {Ok([i \in 1..(IF Len(res.val) < 5 THEN Len(res.val) ELSE 5) |->
            [id |-> res.val[i].id, name |-> res.val[i].name,
             description |-> res.val[i].description,
             project_type |-> res.val[i].project_type,
             updated_at |-> res.val[i].updated_at]]) :
        res \in ListProjectsResults(p)}

\* setup: tauri::async_runtime::spawn(async { init_database().await ... });
\* the task is spawned and setup goes on without waiting for it
spawn_init_database ==
    /\ startup.main = "setup"
    /\ startup' = [startup EXCEPT !.main = "spawned", !.init = "pool", !.stmt = 0]
    /\ UNCHANGED <<projects, messages, settings, clock, last>>
    /\ UNCHANGED <<credentials, keychain, inflight, schema, users, checked_out, DB_POOL>>

\* setup: tray::create_tray, whose build_tray_menu blocks on
\* fetch_recent_projects (get_pool, then the query); after it setup returns
\* and commands are served.  A panic of get_pool unwinds through block_on
\* and setup and ends the process.
create_tray(outcome) ==
    /\ startup.main = "spawned"
    /\ outcome \in GetPoolOutcomes(startup.pool)
    /\ LET got == get_pool(startup.pool, outcome)
       IN /\ \E res \in (IF ~got.res.ok THEN {got.res}
                         ELSE IF "projects" \in schema
                                 THEN FetchRecentProjects(projects)
                                 ELSE {Err("no such table: projects")}) :
                 last' = [op |-> "fetch_recent_projects", arg |-> None, res |-> res]
          /\ startup' = [startup EXCEPT
                            !.main = IF "panic" \in DOMAIN got.res THEN "crashed"
                                                                   ELSE "running",
                            !.pool = got.cell]
          /\ DB_POOL' = IF got.cell THEN PoolReady ELSE PoolEmpty
    /\ UNCHANGED <<projects, messages, settings, clock>>
    /\ UNCHANGED <<credentials, keychain, inflight, schema, users, checked_out>>

\* init_database: let pool = get_pool().await?  An Err ends the task, which
\* prints it; a panic ends the task too
init_get_pool(outcome) ==
    /\ startup.init = "pool"
    /\ startup.main # "crashed"
    /\ outcome \in GetPoolOutcomes(startup.pool)
    /\ LET got == get_pool(startup.pool, outcome)
       IN /\ startup' = [startup EXCEPT
                        !.init = IF got.res.ok THEN "migrating"
                                 ELSE IF "panic" \in DOMAIN got.res THEN "panicked"
                                 ELSE "failed",
                        !.stmt = IF got.res.ok THEN 1 ELSE 0,
                        !.pool = got.cell]
          /\ DB_POOL' = IF got.cell THEN PoolReady ELSE PoolEmpty
    /\ UNCHANGED <<projects, messages, settings, clock, last>>
    /\ UNCHANGED <<credentials, keychain, inflight, schema, users, checked_out>>

\* init_database: the next statement of run_migrations(&pool).await?, each
\* statement run on the pool by itself; a statement that fails ends the task,
\* which prints the error (stmt stays at the statement that failed)
migration_statement(fault) ==
    /\ startup.init = "migrating"
    /\ startup.main # "crashed"
    /\ LET after == IF fault THEN DatabaseFile
                             ELSE MigrationStatement(DatabaseFile, startup.stmt)
       IN /\ schema' = after.schema
          /\ users' = after.users
          /\ projects' = after.projects
          /\ messages' = after.messages
          /\ settings' = after.settings
          /\ credentials' = after.auth_credentials
    /\ startup' = IF fault THEN [startup EXCEPT !.init = "failed"]
                  ELSE IF startup.stmt = LastStatement
                          THEN [startup EXCEPT !.init = "done", !.stmt = 0]
                          ELSE [startup EXCEPT !.stmt = startup.stmt + 1]
    /\ UNCHANGED <<clock, last, keychain, inflight, checked_out, DB_POOL>>

\* the application is quit and started again: the process starts over, the
\* database file stays
restart ==
    /\ startup.main \in {"running", "crashed"}
    /\ startup' = StartupEntry
    /\ inflight' = EmptyBag
    /\ DB_POOL' = PoolEmpty
    /\ UNCHANGED <<projects, messages, settings, clock, last>>
    /\ UNCHANGED <<credentials, keychain, schema, users, checked_out>>

\* a command is invoked while DB_POOL is empty: its get_pool fills the cell
\* (the command then goes on as on an open pool), or fails, and the command
\* returns Err("Failed to get database pool: ...") or unwinds with the panic
command_get_pool(op, outcome) ==
    /\ startup.main = "running"
    /\ ~startup.pool
    /\ LET got == get_pool(startup.pool, outcome)
       IN /\ startup' = [startup EXCEPT !.pool = got.cell]
          /\ DB_POOL' = IF got.cell THEN PoolReady ELSE PoolEmpty
          /\ last' = IF got.res.ok THEN last
                     ELSE [op |-> op, arg |-> None,
                           res |-> IF "panic" \in DOMAIN got.res THEN got.res
                                   ELSE Err("Failed to get database pool")]
    /\ UNCHANGED <<projects, messages, settings, clock>>
    /\ UNCHANGED <<credentials, keychain, inflight, schema, users, checked_out>>

(***************************************************************************)
(* save_project statement by statement.  Tauri runs each invocation of an  *)
(* async command as a task of its own, so several save_project calls can   *)
(* be between two awaits at once, each with a connection of the pool and   *)
(* an open transaction on it.  SQLite lets one connection write at a time, *)
(* and a transaction that has read the database cannot start to write once *)
(* another has committed (SQLITE_BUSY); the writes of an open transaction  *)
(* are seen by no other connection.                                        *)
(***************************************************************************)
\* the instants the concurrent saves can read from the clock: in SpecTx,
\* and in SpecPool, where the saves fill the pool
MaxTxClock == 3
MaxPoolClock == 5

\* the saves that are past their SELECT at one time
MaxActive == 2

\* the pool is built with max_connections(5)
MaxConnections == 5

\* the requests of the concurrent saves: all name the same project, and
\* two of them differ in every field and in their message
TxRequests ==
    {r \in {SaveProjectRequest(Some(i), f, <<m>>) :
                i \in SuppliedIds, f \in FieldProfiles, m \in MsgPool} :
        (r.name = "Test Project") = (r.messages[1].id = "msg-1")}

\* a save_project after pool.begin(): it has its connection, its id and its
\* `now`, and the SELECT is the next statement.  exists is what the SELECT
\* found; work is the transaction's copy of the store once it writes (until
\* then its view is the committed store, or it is stale); stale says that
\* another transaction has committed since this one read, writer that it
\* holds the write lock, overtaken holds the `now` of every save that
\* committed while this one was open
SaveTx(request, project_id, now) ==
    [op |-> "save_project", request |-> request, project_id |-> project_id,
     now |-> now, pc |-> "select", next |-> 1, exists |-> FALSE,
     work |-> Db({}, {}), stale |-> FALSE, writer |-> FALSE, overtaken |-> {}]

\* Visible with no isolation: every statement is seen at once
VisibleDirty(work, committed) == work

\* what the other connections see of the store while a transaction with
\* working copy `work` is open: the committed store
Visible(work, committed) == committed

\* DropTransaction that keeps the connection checked out
DropTransactionLeaks(n) == n

\* `?` returns while tx is alive: dropping the Transaction rolls it back and
\* gives its connection back to the pool
DropTransaction(n) == n - 1

\* tx.commit() consumes the transaction; its connection goes back to the pool
ReturnConnection(n) == n - 1

OtherTxs(tx) == inflight (-) SetToBag({tx})

\* SQLite grants the write lock to a transaction whose view is current when
\* no other transaction holds it
MayWrite(tx) ==
    /\ ~tx.stale
    /\ \A t \in BagToSet(OtherTxs(tx)) : ~t.writer

\* pool.begin().await, then project_id and now
tx_begin(request) ==
    /\ checked_out < MaxConnections
    /\ LET now == clock + 1
           project_id == ResolveProjectId(request, now, 0)
       IN /\ inflight' = inflight (+) SetToBag({SaveTx(request, project_id, now)})
          /\ clock' = now
    /\ checked_out' = checked_out + 1
    /\ UNCHANGED <<projects, messages, last>>
    /\ UNCHANGED <<settings, credentials, keychain, schema, users, startup, DB_POOL>>

\* pool.begin().await with every connection checked out: the acquire times
\* out and save_project returns the error
pool_timed_out(request) ==
    /\ checked_out = MaxConnections
    /\ last' = [op |-> "save_project", arg |-> request,
                res |-> Err("Failed to start transaction"), overtaken |-> {}]
    /\ UNCHANGED <<projects, messages, clock, inflight, checked_out, DB_POOL>>
    /\ UNCHANGED <<settings, credentials, keychain, schema, users, startup, DB_POOL>>

\* a statement of tx fails and save_project returns through `?`
tx_fails(tx, message) ==
    /\ inflight' = OtherTxs(tx)
    /\ checked_out' = DropTransaction(checked_out)
    /\ last' = [op |-> "save_project", arg |-> tx.request,
                res |-> Err(message), overtaken |-> tx.overtaken]
    /\ UNCHANGED <<projects, messages, clock>>
    /\ UNCHANGED <<settings, credentials, keychain, schema, users, startup, DB_POOL>>

\* tx goes on to its next statement with working copy `work`
tx_goes_on(tx, after) ==
    /\ inflight' = OtherTxs(tx) (+) SetToBag({after})
    /\ LET seen == Visible(after.work, Db(projects, messages))
       IN projects' = seen.projects /\ messages' = seen.messages
    /\ UNCHANGED <<clock, last, checked_out, DB_POOL>>
    /\ UNCHANGED <<settings, credentials, keychain, schema, users, startup, DB_POOL>>

\* SELECT id FROM projects WHERE id = ?: the transaction's first read
tx_select(tx, fault) ==
    /\ BagIn(tx, inflight)
    /\ tx.pc = "select"
    /\ Cardinality({t \in BagToSet(inflight) : t.pc # "select"}) < MaxActive
    /\ IF fault THEN tx_fails(tx, "Failed to check existing project")
       ELSE inflight' = OtherTxs(tx) (+) SetToBag({
                 [tx EXCEPT !.pc = "write",
                            !.exists = ProjectExists(Db(projects, messages),
                                                     tx.project_id)]})
            /\ UNCHANGED <<projects, messages, clock, last, checked_out, DB_POOL>>
            /\ UNCHANGED <<settings, credentials, keychain, schema, users, startup, DB_POOL>>

\* the UPDATE or the INSERT of the project: the transaction's first write
tx_write(tx, fault) ==
    /\ BagIn(tx, inflight)
    /\ tx.pc = "write"
    /\ IF fault
       THEN tx_fails(tx, IF tx.exists THEN "Failed to update project"
                                      ELSE "Failed to insert project")
       ELSE /\ MayWrite(tx)
            /\ LET view == Db(projects, messages) IN
               tx_goes_on(tx,
                 [tx EXCEPT !.writer = TRUE,
                            !.pc = IF tx.exists THEN "delete" ELSE "messages",
                            !.work = IF tx.exists
                                THEN UpdateProject(view, tx.project_id, tx.request, tx.now)
                                ELSE InsertProject(view, tx.project_id, tx.request, tx.now)])

\* DELETE FROM messages WHERE project_id = ?
tx_delete(tx, fault) ==
    /\ BagIn(tx, inflight)
    /\ tx.pc = "delete"
    /\ IF fault THEN tx_fails(tx, "Failed to delete old messages")
       ELSE tx_goes_on(tx, [tx EXCEPT !.pc = "messages",
                                      !.work = DeleteMessages(tx.work, tx.project_id)])

\* the INSERT of the next message of the request
tx_message(tx, fault) ==
    /\ BagIn(tx, inflight)
    /\ tx.pc = "messages"
    /\ tx.next <= Len(tx.request.messages)
    /\ LET message == tx.request.messages[tx.next] IN
       IF fault \/ ~MessageConstraintsOk(tx.work, message, tx.project_id)
       THEN tx_fails(tx, "Failed to insert message")
       ELSE tx_goes_on(tx, [tx EXCEPT !.next = tx.next + 1,
                                      !.work = InsertMessage(tx.work, message,
                                                             tx.project_id, tx.now)])

\* tx.commit(): the working copy becomes the store, and the transactions
\* that have read the store before now hold a view that is out of date
tx_commit(tx, fault) ==
    /\ BagIn(tx, inflight)
    /\ tx.pc = "messages"
    /\ tx.next > Len(tx.request.messages)
    /\ IF fault THEN tx_fails(tx, "Failed to commit transaction")
       ELSE /\ projects' = tx.work.projects
            /\ messages' = tx.work.messages
            /\ inflight' = SetToBag({[t EXCEPT !.overtaken = t.overtaken \cup {tx.now},
                                               !.stale = (t.pc # "select")] :
                                        t \in BagToSet(OtherTxs(tx))})
            /\ checked_out' = ReturnConnection(checked_out)
            /\ last' = [op |-> "save_project", arg |-> tx.request,
                        res |-> Ok(tx.project_id), overtaken |-> tx.overtaken]
            /\ UNCHANGED clock
            /\ UNCHANGED <<settings, credentials, keychain, schema, users, startup, DB_POOL>>

(***************************************************************************)
(* read_claude_code_keychain entry by entry.                               *)
(***************************************************************************)
\* the body of the loops for an entry whose get_password gave `password`:
\* the JSON record, else the raw key with the prefix, else nothing
ProbeEntry(password) ==
    IF ParseClaudeCredentials(password).ok THEN ParseClaudeCredentials(password)
    ELSE IF str_starts_with(password.text, "sk-ant-")
            THEN Ok([api_key |-> password.text, email |-> None,
                     subscription_tier |-> None])
    ELSE Err("not a credential")

\* the entries whose password varies over the keychains of SpecKeychain
VariedEntries ==
    {<<"com.anthropic.claude-code", "default">>, <<"com.anthropic.claude-code", "api_key">>,
     <<"claude-code", "default">>, <<"anthropic-claude", "credentials">>}

\* a second raw key, to tell two usable entries apart
OtherRawKeyPassword == [text |-> "sk-ant-keychain-other", json |-> None]

Passwords ==
    {None, Some(JsonPassword), Some(JsonWithoutKey), Some(RawKeyPassword),
     Some(OtherRawKeyPassword), Some(OtherPassword)}

ProbeKeychains ==
    {[e \in KeychainEntries |-> IF e \in VariedEntries THEN f[e] ELSE None] :
        f \in [VariedEntries -> Passwords]}

\* read_claude_code_keychain is entered: no entry is probed yet
KeychainReadEntry ==
    [op |-> "read_claude_code_keychain", arg |-> None, res |-> Ok(None),
     probed |-> <<>>, done |-> FALSE]

\* one pass of the inner loop: Entry::new(service, account), get_password,
\* and the return when the password is a credential; after the last pair
\* the function returns its error
probe_next_entry ==
    /\ ~last.done
    /\ LET i == Len(last.probed) + 1
           entry == ProbeOrder[i]
           password == keychain[entry]
           got == IF password = None THEN Err("no password") ELSE ProbeEntry(password[1])
       IN last' = [last EXCEPT
                     !.probed = Append(@, entry),
                     !.res = IF got.ok THEN got
                             ELSE IF i = Len(ProbeOrder)
                                     THEN Err("No Claude Code credentials found in keychain")
                             ELSE @,
                     !.done = got.ok \/ i = Len(ProbeOrder)]
    /\ UNCHANGED <<projects, messages, settings, clock>>
    /\ UNCHANGED <<credentials, keychain, inflight, schema, users, startup, checked_out, DB_POOL>>

(***************************************************************************)
(* load_settings on rows that save_settings did not write.                 *)
(***************************************************************************)
\* values a row of table settings can hold under each key: value is TEXT NOT
\* NULL and nothing else constrains it; "window_size" is a key that
\* load_settings does not know
StoredValues ==
    [anthropic_api_key |-> {"", "stored-key"},
     theme |-> {"light"},
     auto_save |-> {"true", "false", "yes", "TRUE", "1", ""},
     default_project_path |-> {"/stored/path"},
     window_size |-> {"800x600", "false"}]

\* a row of table settings
SettingRow(key, value) ==
    [id |-> <<"setting", 0, Len(key)>>, key |-> key, value |-> value, updated_at |-> 0]

\* the row of a key, if the table has one
StoredRow(key, value) == IF value = None THEN {} ELSE {SettingRow(key, value[1])}

\* the tables with at most one row for each key (key is UNIQUE)
SettingsTables ==
    {StoredRow("anthropic_api_key", a) \cup StoredRow("theme", t)
        \cup StoredRow("auto_save", s) \cup StoredRow("default_project_path", d)
        \cup StoredRow("window_size", w) :
        a \in {None} \cup {Some(v) : v \in StoredValues.anthropic_api_key},
        t \in {None} \cup {Some(v) : v \in StoredValues.theme},
        s \in {None} \cup {Some(v) : v \in StoredValues.auto_save},
        d \in {None} \cup {Some(v) : v \in StoredValues.default_project_path},
        w \in {None} \cup {Some(v) : v \in StoredValues.window_size}}

(***************************************************************************)
(* load_project and delete_project statement by statement, beside the      *)
(* transactions of save_project.  Each statement runs on the pool: it      *)
(* takes a connection, sees the committed store and gives the connection   *)
(* back.                                                                   *)
(***************************************************************************)
MaxLoads == 1

\* a load_project after its first SELECT: work holds the project row it
\* fetched, the SELECT of the messages is the next statement; overtaken
\* gets the `now` of every save that commits before that statement
LoadTx(project_id, row) ==
    [op |-> "load_project",
     request |-> SaveProjectRequest(Some(project_id), row, <<>>),
     project_id |-> project_id, now |-> 0, pc |-> "load_messages", next |-> 1,
     exists |-> TRUE, work |-> Db({row}, {}), stale |-> FALSE, writer |-> FALSE,
     overtaken |-> {}]

\* SELECT ... FROM projects WHERE id = ? with fetch_optional, and the return
\* through ok_or_else when there is no row
load_select_project(project_id) ==
    /\ Cardinality({t \in BagToSet(inflight) : t.op = "load_project"}) < MaxLoads
    /\ IF \E r \in projects : r.id = project_id
       THEN /\ inflight' = inflight (+) SetToBag({
                   LoadTx(project_id, CHOOSE r \in projects : r.id = project_id)})
            /\ UNCHANGED last
       ELSE /\ last' = [op |-> "load_project", arg |-> project_id,
                        res |-> Err("Project not found"), overtaken |-> {}]
            /\ UNCHANGED inflight
    /\ UNCHANGED <<projects, messages, clock, checked_out, DB_POOL>>
    /\ UNCHANGED <<settings, credentials, keychain, schema, users, startup, DB_POOL>>

\* SELECT id, role, content FROM messages WHERE project_id = ? with
\* fetch_all, and the ProjectWithMessages built from the row fetched before
load_select_messages(tx) ==
    /\ BagIn(tx, inflight)
    /\ tx.pc = "load_messages"
    /\ inflight' = OtherTxs(tx)
    /\ \E res \in LoadProjectResults(tx.work.projects, messages, tx.project_id) :
          last' = [op |-> "load_project", arg |-> tx.project_id, res |-> res,
                   overtaken |-> tx.overtaken]
    /\ UNCHANGED <<projects, messages, clock, checked_out, DB_POOL>>
    /\ UNCHANGED <<settings, credentials, keychain, schema, users, startup, DB_POOL>>

\* DELETE FROM projects WHERE id = ?, one statement in its own implicit
\* transaction: it waits for the write lock, and its commit puts the
\* transactions that have read the store out of date
delete_statement(project_id) ==
    /\ \A t \in BagToSet(inflight) : ~t.writer
    /\ LET remaining == {r \in projects : r.id # project_id}
           rows_affected == Cardinality(projects \ remaining)
       IN /\ rows_affected = 1
          /\ projects' = remaining
          /\ messages' = OnDeleteCascade(remaining, messages)
          /\ inflight' = SetToBag({[t EXCEPT !.overtaken = t.overtaken \cup {0},
                                             !.stale = (t.pc # "select")] :
                                      t \in BagToSet(inflight)})
          /\ last' = [op |-> "delete_project", arg |-> project_id,
                      res |-> Ok(None), overtaken |-> {}]
    /\ UNCHANGED <<clock, checked_out, DB_POOL>>
    /\ UNCHANGED <<settings, credentials, keychain, schema, users, startup, DB_POOL>>

(***************************************************************************)
(* get_pool called by several tasks at once.  tokio's OnceCell lets one    *)
(* caller of get_or_try_init run the initialiser at a time; the others     *)
(* wait, and get the value once it is set or run the initialiser in their  *)
(* turn when it failed.                                                    *)
(***************************************************************************)
MaxCalls == 5

\* a caller of get_pool at an await: "acquire" waits for its turn at the
\* cell, "init" runs the initialiser, "connect" opens the pool of test mode
PoolCaller(pc) == [op |-> "get_pool", pc |-> pc]

\* PermitFree of a cell that lets every caller run the initialiser
PermitAlwaysFree(cell) == TRUE

\* no caller is running the initialiser
PermitFree(cell) == ~cell.initialising

\* get_pool is called: in test mode it goes to open a pool of its own; with
\* the cell set it returns the pool of the cell; otherwise it waits for its
\* turn at the cell
get_pool_enter ==
    /\ DB_POOL.calls < MaxCalls
    /\ DB_POOL' = [DB_POOL EXCEPT !.calls = @ + 1]
    /\ IF DB_POOL.test_mode
       THEN inflight' = inflight (+) SetToBag({PoolCaller("connect")}) /\ UNCHANGED last
       ELSE IF DB_POOL.cell # None
       THEN last' = [op |-> "get_pool", arg |-> None, res |-> Ok(DB_POOL.cell[1])]
            /\ UNCHANGED inflight
       ELSE inflight' = inflight (+) SetToBag({PoolCaller("acquire")}) /\ UNCHANGED last
    /\ UNCHANGED <<projects, messages, settings, clock>>
    /\ UNCHANGED <<credentials, keychain, schema, users, startup, checked_out>>

\* a waiting caller gets its turn: the cell has been set meanwhile and it
\* returns the pool, or it starts the initialiser
once_cell_acquire(call) ==
    /\ BagIn(call, inflight)
    /\ call.pc = "acquire"
    /\ IF DB_POOL.cell # None
       THEN /\ inflight' = inflight (-) SetToBag({call})
            /\ last' = [op |-> "get_pool", arg |-> None, res |-> Ok(DB_POOL.cell[1])]
            /\ UNCHANGED DB_POOL
       ELSE /\ PermitFree(DB_POOL)
            /\ inflight' = (inflight (-) SetToBag({call})) (+) SetToBag({PoolCaller("init")})
            /\ DB_POOL' = [DB_POOL EXCEPT !.initialising = TRUE]
            /\ UNCHANGED last
    /\ UNCHANGED <<projects, messages, settings, clock>>
    /\ UNCHANGED <<credentials, keychain, schema, users, startup, checked_out>>

\* the initialiser ends: a pool is opened and set as the value of the cell,
\* or connect fails, or an expect panics, and the cell stays empty
initialiser_returns(call, outcome) ==
    /\ BagIn(call, inflight)
    /\ call.pc = "init"
    /\ inflight' = inflight (-) SetToBag({call})
    /\ LET got == get_pool(FALSE, outcome)
           pool == DB_POOL.opened + 1
       IN IF got.res.ok
          THEN /\ DB_POOL' = [DB_POOL EXCEPT !.opened = pool, !.cell = Some(pool),
                                             !.initialising = FALSE]
               /\ startup' = [startup EXCEPT !.pool = TRUE]
               /\ last' = [op |-> "get_pool", arg |-> None, res |-> Ok(pool)]
          ELSE /\ DB_POOL' = [DB_POOL EXCEPT !.initialising = FALSE,
                                             !.failures = @ + 1]
               /\ last' = [op |-> "get_pool", arg |-> None, res |-> got.res]
               /\ UNCHANGED startup
    /\ UNCHANGED <<projects, messages, settings, clock>>
    /\ UNCHANGED <<credentials, keychain, schema, users, checked_out>>

\* test mode: SqlitePoolOptions::new().max_connections(5).connect(&db_url)
\* returns, and get_pool returns the new pool or the error
test_pool_connects(call, outcome) ==
    /\ BagIn(call, inflight)
    /\ call.pc = "connect"
    /\ inflight' = inflight (-) SetToBag({call})
    /\ LET pool == DB_POOL.opened + 1
       IN IF outcome = "opened"
          THEN /\ DB_POOL' = [DB_POOL EXCEPT !.opened = pool]
               /\ last' = [op |-> "get_pool", arg |-> None, res |-> Ok(pool)]
          ELSE /\ last' = [op |-> "get_pool", arg |-> None,
                           res |-> Err("unable to open database file")]
               /\ UNCHANGED DB_POOL
    /\ UNCHANGED <<projects, messages, settings, clock>>
    /\ UNCHANGED <<credentials, keychain, schema, users, startup, checked_out>>

Next ==
    \/ \E request \in SaveProjectRequests :
         \E s \in (IF request.project_id = None
                    THEN SuffixDraws(projects, "proj", timestamp_millis(clock + 1))
                    ELSE {0}) :
           \E failAt \in FailPoints(Db(projects, messages), request,
                                    ResolveProjectId(request, clock + 1, s)) :
             save_project(request, s, failAt)
    \/ \E project_id \in IdInputs : load_project(project_id)
    \/ list_projects
    \/ \E project_id \in IdInputs : delete_project(project_id)

Spec == Init /\ [][Next]_vars
NextSettings ==
    \/ \E s \in SettingsInputs, failAt \in SettingsFailPoints : save_settings(s, failAt)
    \/ load_settings

\* the settings commands alone
SpecSettings == Init /\ [][NextSettings]_vars


\* the store after a first start, and any of the keychains
InitAuth ==
    /\ projects = {}
    /\ messages = {}
    /\ settings = {}
    /\ clock = 0
    /\ last = [op |-> "none", arg |-> None, res |-> Ok(None)]
    /\ credentials = {}
    /\ keychain \in KeychainInputs
    /\ inflight = EmptyBag
    /\ schema = Range(Tables)
    /\ users = {DefaultUser}
    /\ startup = StartupDone
    /\ checked_out = 0
    /\ DB_POOL = PoolReady

NextAuth ==
    \/ \E fault \in BOOLEAN : check_claude_auth(fault)
    \/ \E a \in SaveApiKeyInputs : save_api_key(a.api_key, a.email)
    \/ \E call \in BagToSet(inflight), reply \in Replies, fault \in BOOLEAN :
         validation_returns(call, reply, fault)
    \/ \E call \in BagToSet(inflight) : remote_never_answers(call)
    \/ \E fault \in BOOLEAN : get_credentials(fault)

\* the credential commands alone, their waits on the remote service interleaved
SpecAuth == InitAuth /\ [][NextAuth]_vars


\* a first start: no table exists
InitStartup ==
    /\ projects = {}
    /\ messages = {}
    /\ settings = {}
    /\ clock = 0
    /\ last = [op |-> "none", arg |-> None, res |-> Ok(None)]
    /\ credentials = {}
    /\ keychain = EmptyKeychain
    /\ inflight = EmptyBag
    /\ schema = {}
    /\ users = {}
    /\ startup = StartupEntry
    /\ checked_out = 0
    /\ DB_POOL = PoolEmpty

NextStartup ==
    \/ spawn_init_database
    \/ \E outcome \in GetPoolOutcomes(FALSE) : create_tray(outcome)
    \/ \E outcome \in GetPoolOutcomes(FALSE) : init_get_pool(outcome)
    \/ \E op \in PoolCommands, outcome \in GetPoolOutcomes(FALSE) :
         command_get_pool(op, outcome)
    \/ \E fault \in BOOLEAN : migration_statement(fault)
    \/ restart
    \/ startup.main = "running" /\ startup.pool /\ list_projects
    \/ startup.main = "running" /\ startup.pool /\ load_settings
    \/ startup.main = "running" /\ startup.pool
         /\ \E s \in SettingsInputs, failAt \in {f \in SettingsFailPoints : f.index <= 1} :
              save_settings(s, failAt)
    \/ startup.main = "running" /\ startup.pool
         /\ \E fault \in BOOLEAN : get_credentials(fault)

\* the application from main() on: setup, the spawned init_database task
\* and the commands served once setup has returned
SpecStartup == InitStartup /\ [][NextStartup]_vars

InitTx ==
    /\ projects = {}
    /\ messages = {}
    /\ settings = {}
    /\ clock = 0
    /\ last = [op |-> "none", arg |-> None, res |-> Ok(None), overtaken |-> {}]
    /\ credentials = {}
    /\ keychain = EmptyKeychain
    /\ inflight = EmptyBag
    /\ schema = Range(Tables)
    /\ users = {DefaultUser}
    /\ startup = StartupDone
    /\ checked_out = 0
    /\ DB_POOL = PoolReady

\* the steps of the save_project calls that are open
NextStatement ==
    \/ \E tx \in BagToSet(inflight), fault \in BOOLEAN : tx_select(tx, fault)
    \/ \E tx \in BagToSet(inflight), fault \in BOOLEAN : tx_write(tx, fault)
    \/ \E tx \in BagToSet(inflight), fault \in BOOLEAN : tx_delete(tx, fault)
    \/ \E tx \in BagToSet(inflight), fault \in BOOLEAN : tx_message(tx, fault)
    \/ \E tx \in BagToSet(inflight), fault \in BOOLEAN : tx_commit(tx, fault)

NextTx ==
    \/ clock < MaxTxClock /\ \E request \in TxRequests : tx_begin(request)
    \/ NextStatement

\* concurrent save_project calls on one project, interleaved statement by
\* statement
SpecTx == InitTx /\ [][NextTx]_vars

\* the request of SpecPool
PoolRequests == {r \in TxRequests : r.name = "Test Project"}

NextPool ==
    \/ clock < MaxPoolClock /\ \E request \in PoolRequests : tx_begin(request)
    \/ \E request \in PoolRequests : pool_timed_out(request)
    \/ NextStatement

\* save_project calls of one request, as many at a time as the pool has
\* connections
SpecPool == InitTx /\ [][NextPool]_vars


InitKeychain ==
    /\ projects = {}
    /\ messages = {}
    /\ settings = {}
    /\ clock = 0
    /\ last = KeychainReadEntry
    /\ credentials = {}
    /\ keychain \in ProbeKeychains
    /\ inflight = EmptyBag
    /\ schema = Range(Tables)
    /\ users = {DefaultUser}
    /\ startup = StartupDone
    /\ checked_out = 0
    /\ DB_POOL = PoolReady

NextKeychain == probe_next_entry

\* one call of read_claude_code_keychain on each keychain of ProbeKeychains
SpecKeychain == InitKeychain /\ [][NextKeychain]_vars

InitSettingsRows ==
    /\ projects = {}
    /\ messages = {}
    /\ settings \in SettingsTables
    /\ clock = 0
    /\ last = [op |-> "none", arg |-> None, res |-> Ok(None)]
    /\ credentials = {}
    /\ keychain = EmptyKeychain
    /\ inflight = EmptyBag
    /\ schema = Range(Tables)
    /\ users = {DefaultUser}
    /\ startup = StartupDone
    /\ checked_out = 0
    /\ DB_POOL = PoolReady

NextSettingsRows == load_settings

\* load_settings on each table of SettingsTables
SpecSettingsRows == InitSettingsRows /\ [][NextSettingsRows]_vars

\* a store that earlier runs have filled: a project with a message, the
\* settings save_settings writes, and a manually entered key
EarlierProject ==
    Db({[id |-> <<"proj", 0, 9>>, name |-> "Earlier Project", description |-> None,
         project_type |-> "web-app", active_agents |-> "[]", current_code |-> None,
         visibility |-> "PRIVATE", user_id |-> "local-user",
         created_at |-> 0, updated_at |-> 0]},
       {[id |-> "msg-0", role |-> "user", content |-> "Hello", project_id |-> <<"proj", 0, 9>>,
         created_at |-> 0]})

EarlierSettings ==
    {SettingRow(k, [anthropic_api_key |-> "stored-key", theme |-> "light",
                    auto_save |-> "false", default_project_path |-> "/stored/path"][k]) :
        k \in {"anthropic_api_key", "theme", "auto_save", "default_project_path"}}

EarlierCredentials ==
    store_credentials_in_db({}, "sk-ant-manual", Some("user@example.com"), None, FALSE).tbl

InitFrame ==
    /\ projects = EarlierProject.projects
    /\ messages = EarlierProject.messages
    /\ settings = EarlierSettings
    /\ clock = 0
    /\ last = [op |-> "none", arg |-> None, res |-> Ok(None)]
    /\ credentials = EarlierCredentials
    /\ keychain = EmptyKeychain
    /\ inflight = EmptyBag
    /\ schema = Range(Tables)
    /\ users = {DefaultUser}
    /\ startup = StartupDone
    /\ checked_out = 0
    /\ DB_POOL = PoolReady

\* the requests of SpecFrame: one set of fields, at most one message
FrameRequests ==
    {r \in SaveProjectRequests : r.name = "Updated Name" /\ Len(r.messages) <= 1}

NextFrame ==
    \/ \E request \in FrameRequests :
         \E s \in (IF request.project_id = None
                    THEN SuffixDraws(projects, "proj", timestamp_millis(clock + 1))
                    ELSE {0}) :
           \E failAt \in FailPoints(Db(projects, messages), request,
                                    ResolveProjectId(request, clock + 1, s)) :
             save_project(request, s, failAt)
    \/ \E project_id \in IdInputs : load_project(project_id)
    \/ list_projects
    \/ \E project_id \in IdInputs : delete_project(project_id)
    \/ load_settings
    \/ \E fault \in BOOLEAN : get_credentials(fault)

\* the project commands and the two readers of the other tables, on a store
\* that holds a project, settings and a credential
SpecFrame == InitFrame /\ [][NextFrame]_vars

NextLoad ==
    \/ NextTx
    \/ \E project_id \in SuppliedIds : load_select_project(project_id)
    \/ \E tx \in BagToSet(inflight) : load_select_messages(tx)
    \/ \E project_id \in SuppliedIds : delete_statement(project_id)

\* load_project and delete_project beside concurrent save_project calls, all
\* on one project
SpecLoad == InitTx /\ [][NextLoad]_vars

\* a process that serves commands and has not opened the pool (the get_pool
\* of init_database failed), and a test process with TEST_DATABASE_PATH set
InitCell ==
    /\ projects = {}
    /\ messages = {}
    /\ settings = {}
    /\ clock = 0
    /\ last = [op |-> "none", arg |-> None, res |-> Ok(None)]
    /\ credentials = {}
    /\ keychain = EmptyKeychain
    /\ inflight = EmptyBag
    /\ schema = {}
    /\ users = {}
    /\ startup = [main |-> "running", init |-> "failed", stmt |-> 0, pool |-> FALSE]
    /\ checked_out = 0
    /\ DB_POOL \in {PoolEmpty, [PoolEmpty EXCEPT !.test_mode = TRUE]}

NextCell ==
    \/ get_pool_enter
    \/ \E call \in BagToSet(inflight) : once_cell_acquire(call)
    \/ \E call \in BagToSet(inflight), outcome \in GetPoolOutcomes(FALSE) :
         initialiser_returns(call, outcome)
    \/ \E call \in BagToSet(inflight), outcome \in {"opened", "connect_error"} :
         test_pool_connects(call, outcome)

\* the calls of get_pool of several commands, interleaved at their awaits
SpecCell == InitCell /\ [][NextCell]_vars

(***************************************************************************)
(* Properties of the project store and the settings store.                 *)
(***************************************************************************)
\* a sequence as a bag: how many times each element occurs
BagOfSeq(q) == [x \in Range(q) |-> Cardinality({i \in DOMAIN q : q[i] = x})]

\* the rows of a project's messages as Message values
StoredMessages(m, project_id) ==
    {[id |-> x.id, role |-> x.role, content |-> x.content] :
        x \in {y \in m : y.project_id = project_id}}

\* the step is a call of save_project (the one command of Spec that reads the clock)
SaveStep == last'.op = "save_project" /\ clock' # clock

\* every load_project(project_id) of store (p, m) returns the fields and
\* exactly the messages of the request, in some order
LoadsBack(p, m, project_id, request) ==
    \A r \in LoadProjectResults(p, m, project_id) :
        /\ r.ok
        /\ r.val.id = project_id
        /\ r.val.name = request.name
        /\ r.val.project_type = request.project_type
        /\ BagOfSeq(r.val.messages) = BagOfSeq(request.messages)

\* C1: a save_project with no project_id that succeeds returns an id that
\* starts with "proj-" and that no project of the store had before the call,
\* and a load_project of that id then returns the request's name, project_type
\* and exactly its messages.
C1_CreateReturnsFreshId ==
    [][(SaveStep /\ last'.res.ok /\ last'.arg.project_id = None)
        => /\ starts_with(last'.res.val, "proj")
           /\ ~ProjectExists(Db(projects, messages), last'.res.val)
           /\ LoadsBack(projects', messages', last'.res.val, last'.arg)]_vars

\* C2: after a save_project of two or more messages, load_project returns
\* the messages in the order in which they were submitted.
C2_LoadKeepsSubmissionOrder ==
    (last.op = "save_project" /\ last.res.ok /\ Len(last.arg.messages) >= 2)
        => \A r \in LoadProjectResults(projects, messages, last.res.val) :
               r.ok /\ r.val.messages = last.arg.messages

\* C3: a save_project with the id of an existing project that succeeds
\* returns that id and leaves the project with exactly the messages of the
\* request: as many as the request has, none of the old ones.
C3_UpdateReplacesMessages ==
    [][(/\ SaveStep /\ last'.res.ok
        /\ last'.arg.project_id # None
        /\ ProjectExists(Db(projects, messages), last'.arg.project_id[1]))
        => LET id == last'.arg.project_id[1] IN
           /\ last'.res.val = id
           /\ StoredMessages(messages', id) = Range(last'.arg.messages)
           /\ Cardinality({x \in messages' : x.project_id = id}) = Len(last'.arg.messages)
           /\ LoadsBack(projects', messages', id, last'.arg)]_vars

\* an update of an existing project has replaced its messages
C3_Witness ==
    /\ last.op = "save_project" /\ last.res.ok /\ last.arg.project_id # None
    /\ Len(last.arg.messages) = 1
    /\ \E r \in projects : r.id = last.res.val /\ r.created_at < r.updated_at
    /\ \E x \in messages : x.project_id = last.res.val

\* C4: a save_project that returns an error leaves the projects and the
\* messages of the store exactly as they were before the call.
C4_FailedSaveChangesNothing ==
    [][(SaveStep /\ ~last'.res.ok) => (projects' = projects /\ messages' = messages)]_vars

\* the commit of an update that had rewritten the project and its messages failed
C4_Witness ==
    /\ last.op = "save_project" /\ ~last.res.ok
    /\ last.res.err = "Failed to commit transaction"
    /\ last.arg.project_id # None
    /\ Len(last.arg.messages) >= 1
    /\ \E r \in projects : r.id = last.arg.project_id[1] /\ r.name # last.arg.name

\* C5: every stored message belongs to exactly one existing project.
C5_MessagesBelongToOneProject ==
    \A x \in messages : Cardinality({r \in projects : r.id = x.project_id}) = 1

\* a project was deleted and another project still has its messages
C5_Witness ==
    /\ last.op = "delete_project" /\ last.res.ok
    /\ messages # {}
    /\ \A x \in messages : x.project_id # last.arg

\* C6: delete_project of an existing id succeeds and load_project of that id
\* then fails with not-found; delete_project of an id not in the store
\* returns not-found and changes nothing; load_project fails with not-found
\* exactly when no project has the id.
C6_DeleteAndNotFound ==
    [][(last'.op = "delete_project")
        => /\ IF ProjectExists(Db(projects, messages), last'.arg)
                THEN /\ last'.res.ok
                     /\ LoadProjectResults(projects', messages', last'.arg)
                            = {Err("Project not found")}
                ELSE /\ last'.res = Err("Project not found")
                     /\ projects' = projects /\ messages' = messages
           /\ \A id \in IdInputs \cup IdInputs' :
                (Err("Project not found") \in LoadProjectResults(projects', messages', id))
                    <=> ~ProjectExists(Db(projects', messages'), id)]_vars

\* a project was deleted, others remain, and loading it finds nothing
C6_Witness ==
    /\ last.op = "delete_project" /\ last.res.ok
    /\ projects # {}
    /\ LoadProjectResults(projects, messages, last.arg) = {Err("Project not found")}

\* C7: list_projects returns the empty list on a store with no projects and
\* otherwise one entry for each project of the store.
C7_ListReturnsEveryProject ==
    /\ \A res \in ListProjectsResults(projects) :
        /\ res.ok
        /\ Len(res.val) = Cardinality(projects)
        /\ Range(res.val) = projects
    /\ ListProjectsResults(projects) # {}
    /\ projects = {} => ListProjectsResults(projects) = {Ok(<<>>)}
    /\ last.op = "list_projects" => last.res \in ListProjectsResults(projects)

\* list_projects has returned two projects
C7_Witness ==
    last.op = "list_projects" /\ last.res.ok /\ Len(last.res.val) = 2

C9_SettingsRoundTrip ==
    (last.op = "save_settings" /\ last.res.ok) => LoadSettings(settings) = last.arg

\* C9, amended: after a save_settings(s) that succeeds, load_settings
\* returns the theme, auto_save and default_project_path of s, and its api
\* key unless that is the empty string, which is loaded as no api key.
C9_SettingsRoundTripButEmptyKey ==
    (last.op = "save_settings" /\ last.res.ok)
        => LET loaded == LoadSettings(settings) IN
           /\ loaded.theme = last.arg.theme
           /\ loaded.auto_save = last.arg.auto_save
           /\ loaded.default_project_path = last.arg.default_project_path
           /\ loaded.anthropic_api_key =
                IF last.arg.anthropic_api_key = Some("") THEN None
                ELSE last.arg.anthropic_api_key

\* settings with auto_save = false and a custom path have been saved
C9_Witness ==
    /\ last.op = "save_settings" /\ last.res.ok
    /\ last.arg.auto_save = FALSE
    /\ last.arg.default_project_path = "/saved/path"
    /\ last.arg.anthropic_api_key # None

\* C10: load_settings on a store with no settings row returns the defaults.
C10_DefaultSettings ==
    settings = {}
        => /\ LoadSettings(settings) =
                [anthropic_api_key |-> None, theme |-> "dark", auto_save |-> TRUE,
                 default_project_path |-> "~/Documents/Vibing2Projects"]
           /\ last.op = "load_settings" => last.res = Ok(LoadSettings(settings))

\* load_settings has run on a store with no settings row
C10_Witness ==
    last.op = "load_settings" /\ settings = {}

\* C11: after a successful save_settings the settings table holds exactly
\* one row for each of the four recognized keys and no other row, each row
\* carries the value of that save, and an absent API key is stored as the
\* empty string; no state has two rows of one key.
SettingKeys == {"anthropic_api_key", "theme", "auto_save", "default_project_path"}
C11_OneRowPerKey ==
    /\ \A r \in settings : r.key \in SettingKeys
    /\ \A r, q \in settings : r.key = q.key => r = q
    /\ (last.op = "save_settings" /\ last.res.ok) =>
          /\ {r.key : r \in settings} = SettingKeys
          /\ SettingValue(settings, "theme") = Some(last.arg.theme)
          /\ SettingValue(settings, "auto_save") = Some(BoolToString(last.arg.auto_save))
          /\ SettingValue(settings, "default_project_path")
                = Some(last.arg.default_project_path)
          /\ SettingValue(settings, "anthropic_api_key")
                = Some(IF last.arg.anthropic_api_key = None
                          THEN "" ELSE last.arg.anthropic_api_key[1])

\* the second save_settings call, of an absent API key, has succeeded
C11_Witness ==
    /\ last.op = "save_settings" /\ last.res.ok
    /\ last.arg.anthropic_api_key = None
    /\ clock = 2
    /\ \A r \in settings : r.updated_at = 2
    /\ \E r \in settings : r.key = "anthropic_api_key" /\ r.value = ""

(***************************************************************************)
(* Properties of the credential commands.                                  *)
(***************************************************************************)
\* a step in which check_claude_auth returns: either a waiting call got its
\* reply, or the keychain gave nothing and the call went through at once
CheckReturns ==
    /\ last'.op = "check_claude_auth"
    /\ \/ BagCardinality(inflight') < BagCardinality(inflight)
       \/ /\ inflight' = inflight
          /\ ~read_claude_code_keychain(keychain).ok

\* a step in which save_api_key returns
SaveApiKeyReturns ==
    /\ last'.op = "save_api_key"
    /\ BagCardinality(inflight') < BagCardinality(inflight)

NotAuthenticated == Ok(AuthStatus(FALSE, "none", None))

\* C12: when no probed keychain entry is usable and table auth_credentials
\* has no row, check_auth_status returns authenticated = false, source =
\* "none" and no email.
C12_NoCredentialsAnywhere ==
    [][(CheckReturns /\ ~read_claude_code_keychain(keychain).ok /\ credentials = {})
          => last'.res = NotAuthenticated]_vars

\* the keychain has an entry, which is JSON without api_key, the table is
\* empty, and check_claude_auth has returned "none"
C12_Witness ==
    /\ last.op = "check_claude_auth"
    /\ \E e \in KeychainEntries : keychain[e] # None
    /\ ~read_claude_code_keychain(keychain).ok
    /\ credentials = {}
    /\ last.res = NotAuthenticated
    /\ last.trace[Len(last.trace)].outcome = "none"

\* C13: when the keychain yields credentials and validate_api_key returns
\* Ok(true) for their key, check_auth_status returns authenticated = true,
\* source = "keychain" with the keychain's email, after one attempt to store
\* the credentials; the attempt failing changes neither the status nor the
\* Ok of the call, and an attempt that succeeds leaves the keychain
\* credentials as the stored row.
C13_KeychainValidStoresBestEffort ==
    [][(CheckReturns /\ \E i \in DOMAIN last'.trace :
                           /\ last'.trace[i].step = "validate"
                           /\ last'.trace[i].outcome = "valid")
          => LET found == read_claude_code_keychain(keychain)
                 t == last'.trace
             IN /\ found.ok
                /\ last'.res = Ok(AuthStatus(TRUE, "keychain", found.val.email))
                /\ Len(t) = 3
                /\ t[2].step = "validate" /\ t[2].api_key = found.val.api_key
                /\ t[3].step = "store" /\ t[3].api_key = found.val.api_key
                /\ t[3].outcome = "error" => credentials' = credentials
                /\ t[3].outcome = "ok" =>
                     load_credentials_from_db(credentials', FALSE) = Ok(found.val)]_vars

\* check_claude_auth has reported the keychain source although storing the
\* credentials failed
C13_Witness ==
    /\ last.op = "check_claude_auth"
    /\ last.res.ok /\ last.res.val.source = "keychain"
    /\ Len(last.trace) = 3
    /\ last.trace[3].step = "store" /\ last.trace[3].outcome = "error"
    /\ credentials = {}

InvalidKeyMessage == "Invalid API key - authentication failed with Anthropic API"

\* C15: validate_api_key returns Ok(true) exactly for a 2xx status,
\* Ok(false) exactly for 401, and Err for every other status and for a
\* transport failure, so a failed request is never reported as an invalid
\* key; save_api_key answers Ok(false) with "Invalid API key ..." and Err
\* with "Validation failed: ...", and with neither message otherwise.
C15_ThreeValidationOutcomes ==
    /\ \A reply \in Replies :
          LET validation == validate_api_key(reply)
              typed == [api_key |-> "sk-ant-manual", email |-> None,
                        subscription_tier |-> None]
              saved == SaveApiKeyValidated(credentials, typed, validation, FALSE, <<>>)
          IN /\ validation = Ok(TRUE) <=> (reply.ok /\ reply.val \in 200..299)
             /\ validation = Ok(FALSE) <=> (reply.ok /\ reply.val = 401)
             /\ ~validation.ok <=> (~reply.ok \/ reply.val \notin (200..299) \cup {401})
             /\ ~reply.ok => ~saved.res.ok /\ saved.res.err # InvalidKeyMessage
             /\ ~validation.ok <=>
                  (~saved.res.ok /\ str_starts_with(saved.res.err, "Validation failed"))
             /\ validation = Ok(FALSE) <=>
                  (~saved.res.ok /\ saved.res.err = InvalidKeyMessage)
    /\ last.op = "save_api_key" =>
          /\ last.trace[1].outcome = "error" <=>
               (~last.res.ok /\ str_starts_with(last.res.err, "Validation failed"))
          /\ last.trace[1].outcome = "invalid" <=>
               (~last.res.ok /\ last.res.err = InvalidKeyMessage)

\* save_api_key has returned "Validation failed: ..." for a request that the
\* remote service did not answer with 2xx or 401
C15_Witness ==
    /\ last.op = "save_api_key"
    /\ last.trace[1].step = "validate" /\ last.trace[1].outcome = "error"
    /\ ~last.res.ok /\ last.res.err = "Validation failed: API request failed"
    /\ credentials = {}

\* C16: save_api_key validates before it writes.  The first step of every
\* call is the validation of the key given; a store step comes only second
\* and only after the outcome "valid"; the call returns Ok only then; with
\* the outcome "invalid" or "error" it returns Err and the stored row is as
\* it was; and sending the request writes nothing.
C16_ValidateBeforeWrite ==
    [][/\ SaveApiKeyReturns =>
            LET t == last'.trace IN
            /\ t[1].step = "validate" /\ t[1].api_key = last'.arg[1].api_key
            /\ \A i \in DOMAIN t : t[i].step = "store" => i = 2 /\ t[1].outcome = "valid"
            /\ last'.res.ok => t[1].outcome = "valid" /\ Len(t) = 2
            /\ t[1].outcome # "valid" => ~last'.res.ok /\ credentials' = credentials
            /\ credentials' # credentials => t[1].outcome = "valid" /\ last'.res.ok
       /\ BagCardinality(inflight') > BagCardinality(inflight) => credentials' = credentials
      ]_vars

\* save_api_key has returned "Invalid API key ..." and the row stored by an
\* earlier save is still there
C16_Witness ==
    /\ last.op = "save_api_key"
    /\ last.arg[1].api_key = "invalid-key"
    /\ last.trace[1].outcome = "invalid"
    /\ ~last.res.ok
    /\ \E r \in credentials : r.api_key = "sk-ant-manual"

\* C17: in every state that save_api_key and check_claude_auth calls reach,
\* in any order and with their waits interleaved, table auth_credentials has
\* at most one row, and a row it has has id 1.
C17_SingleCredentialRow ==
    /\ Cardinality(credentials) <= 1
    /\ \A r \in credentials : r.id = 1

\* a check_claude_auth has stored the keychain credentials while a
\* save_api_key waits for its reply
C17_Witness ==
    /\ last.op = "check_claude_auth"
    /\ Len(last.trace) = 3 /\ last.trace[3].step = "store" /\ last.trace[3].outcome = "ok"
    /\ \E r \in credentials : r.api_key = "sk-ant-keychain-json"
    /\ BagCardinality(inflight) = 1
    /\ \E call \in BagToSet(inflight) : call.op = "save_api_key"

\* C18: when save_api_key(k, e) returns Ok the stored credentials, which are
\* what get_credentials returns, have api_key = k and email = e.  A stored
\* row is never removed, and get_credentials returns "No credentials found
\* in database" exactly when the table is empty, which is when nothing has
\* been stored, and its read does not fail.
C18_SavedKeyReadBack ==
    [][/\ (SaveApiKeyReturns /\ last'.res.ok) =>
            load_credentials_from_db(credentials', FALSE)
              = Ok([api_key |-> last'.arg[1].api_key, email |-> last'.arg[1].email,
                    subscription_tier |-> None])
       /\ credentials # {} => credentials' # {}
       /\ last'.op = "get_credentials" =>
            /\ (~last'.res.ok /\ last'.res.err = "No credentials found in database")
                 <=> (credentials' = {} /\ last'.trace[1].outcome # "error")
            /\ last'.trace[1].outcome # "error" =>
                 last'.res = load_credentials_from_db(credentials', FALSE)
      ]_vars

\* get_credentials has returned the key and the email of the save_api_key
\* before it
C18_Witness ==
    /\ last.op = "get_credentials"
    /\ last.res = Ok([api_key |-> "sk-ant-manual", email |-> Some("user@example.com"),
                      subscription_tier |-> None])
    /\ keychain # EmptyKeychain

(***************************************************************************)
(* Properties of startup and of the schema migration.                      *)
(***************************************************************************)
\* every table exists and users holds the default user and nothing else
Migrated(file) == file.schema = Range(Tables) /\ file.users = {DefaultUser}

\* a step of the spawned task that runs a statement of run_migrations
MigrationStep ==
    /\ startup.init = "migrating"
    /\ startup'.init # "migrating" \/ startup'.stmt # startup.stmt

\* C19: run_migrations is idempotent.  Run on any database file the
\* application reaches, it gives every table and the one default user
\* 'local-user', and run again on its own result it changes nothing; the
\* rows of projects, messages, settings and auth_credentials are those of
\* before.  A start whose init_database returns Ok has this file, and on a
\* migrated file no statement of a later start changes any table or row.
C19_MigrationIdempotent ==
    [][/\ LET once == run_migrations(DatabaseFile, 1)
          IN /\ Migrated(once)
             /\ run_migrations(once, 1) = once
             /\ once = [WithRows(DatabaseFile, "users", {DefaultUser})
                           EXCEPT !.schema = Range(Tables)]
             /\ Migrated(DatabaseFile) => once = DatabaseFile
       /\ startup'.init = "done" => schema' = Range(Tables) /\ users' = {DefaultUser}
       /\ (MigrationStep /\ Migrated(DatabaseFile)) =>
             UNCHANGED <<schema, users, projects, messages, settings, credentials>>
      ]_vars

\* a later start has run the migration to its end on a file that holds
\* settings saved during an earlier start
C19_Witness ==
    /\ startup.main = "spawned"
    /\ startup.init = "done"
    /\ Migrated(DatabaseFile)
    /\ Cardinality(settings) = 4
    /\ last.op = "save_settings" /\ last.res.ok

\* C20: no command and no tray-menu query touches the store before
\* init_database has finished: every step in which the tray's
\* fetch_recent_projects or a store command runs is taken with the spawned
\* init_database task having returned Ok.
C20_MigrationBeforeQueries ==
    [][(/\ startup.main \in {"spawned", "running"}
        /\ startup'.main = "running"
        /\ startup'.init = startup.init /\ startup'.stmt = startup.stmt)
          => startup.init = "done"]_vars


(***************************************************************************)
(* Further properties of save_project and save_settings.                   *)
(***************************************************************************)
\* the message rows of one project
MessagesOf(m, project_id) == {x \in m : x.project_id = project_id}

\* C22: a save_project with no project_id never overwrites or modifies a
\* project that the store already holds, nor that project's messages; when
\* the generated id equals the id of a stored project the call does not
\* return success.
C22_CollisionLeavesStoreAlone ==
    [][(SaveStep /\ last'.arg.project_id = None)
        => /\ \A r \in projects :
                 /\ r \in projects'
                 /\ MessagesOf(messages', r.id) = MessagesOf(messages, r.id)
           /\ last'.res.ok => \A r \in projects : r.id # last'.res.val]_vars

\* C28: a save_settings that returns an error leaves the value of every
\* one of the four settings as it was before the call.
C28_FailedSaveChangesNothing ==
    [][(last'.op = "save_settings" /\ clock' # clock /\ ~last'.res.ok)
        => \A key \in SettingKeys :
               SettingValue(settings', key) = SettingValue(settings, key)]_vars

\* C29: created_at of a stored project never changes, updated_at is never
\* before created_at, and a step that keeps a project (an update by
\* save_project included) leaves its description, visibility and user_id
\* as they were.
C29_ImmutableProjectFields ==
    [][/\ \A r \in projects' : r.updated_at >= r.created_at
       /\ \A r \in projects, s \in projects' :
              r.id = s.id => /\ s.created_at = r.created_at
                             /\ s.description = r.description
                             /\ s.visibility = r.visibility
                             /\ s.user_id = r.user_id
       /\ \A r, s \in projects' : r.id = s.id => r = s]_vars

\* C30: a successful save_project with a supplied project_id that no project
\* of the store has returns that id and adds exactly one project, with that
\* id, owner 'local-user' and created_at equal to updated_at, and the other
\* projects are kept as they are.
C30_SuppliedIdInserts ==
    [][(/\ SaveStep /\ last'.res.ok
        /\ last'.arg.project_id # None
        /\ \A r \in projects : r.id # last'.arg.project_id[1])
        => /\ last'.res.val = last'.arg.project_id[1]
           /\ \E r \in projects' :
                 /\ projects' = projects \cup {r}
                 /\ r.id = last'.arg.project_id[1]
                 /\ r.user_id = "local-user"
                 /\ r.created_at = r.updated_at
                 /\ r.name = last'.arg.name]_vars

\* a save_project with a supplied id has just created the project
C30_Witness ==
    /\ last.op = "save_project" /\ last.res.ok
    /\ last.arg.project_id # None
    /\ \E r \in projects :
          /\ r.id = last.arg.project_id[1]
          /\ r.created_at = clock /\ r.updated_at = clock
          /\ r.user_id = "local-user"


(***************************************************************************)
(* Properties of startup failures.                                         *)
(***************************************************************************)
\* C21: a schema migration that fails ends the start: there is no state in
\* which a statement of run_migrations has failed and the application has
\* left setup and serves commands.
C21_FailedMigrationAbortsStartup ==
    ~(startup.init = "failed" /\ startup.stmt >= 1 /\ startup.main = "running")

\* C27: every store command ends by returning an explicit success or error
\* value, never by a panic.
C27_CommandsReturnResult ==
    last.op \in PoolCommands => (last.res.ok \/ "err" \in DOMAIN last.res)


(***************************************************************************)
(* Properties of the wait on the remote validation.                        *)
(***************************************************************************)
\* the connections checked out by the commands that wait for a validation
RECURSIVE CheckedOut(_)
CheckedOut(calls) ==
    IF calls = EmptyBag THEN 0
    ELSE LET call == CHOOSE c \in BagToSet(calls) : TRUE
         IN call.conns + CheckedOut(calls (-) SetToBag({call}))

C26_ValidationAlwaysReturns ==
    \A call \in BagToSet(inflight) :
        ENABLED (\E reply \in Replies, fault \in BOOLEAN :
                     validation_returns(call, reply, fault))


(***************************************************************************)
(* Properties of concurrent save_project calls and of the pool.            *)
(***************************************************************************)
\* a step in which an open save_project commits and returns Ok
TxCommitStep ==
    /\ BagCardinality(inflight') < BagCardinality(inflight)
    /\ last'.res.ok

\* the store (p, m) holds project_id exactly as `request` describes it: one
\* row with the request's fields, and the request's messages and no others
ProjectIsRequest(p, m, project_id, request) ==
    /\ \E r \in p :
          /\ {x \in p : x.id = project_id} = {r}
          /\ r.name = request.name
          /\ r.project_type = request.project_type
          /\ r.active_agents = request.active_agents
          /\ r.current_code = request.current_code
    /\ StoredMessages(m, project_id) = Range(request.messages)
    /\ Cardinality(MessagesOf(m, project_id)) = Len(request.messages)

\* C23: with save_project calls on one project running at the same time,
\* the stored project is at every moment exactly what the save that
\* committed last asked for: the commit of a save leaves the project with
\* that request's fields and messages, and no other step of any save changes
\* the store.
C23_LastCommitWins ==
    [][/\ TxCommitStep =>
            ProjectIsRequest(projects', messages', last'.res.val, last'.arg)
       /\ ~TxCommitStep => projects' = projects /\ messages' = messages]_vars

\* the project was created at instant 1; the saves that read instants 2 and
\* 3 were open together, the later one committed first, and the earlier one
\* has now committed too
C23_Witness ==
    /\ last.op = "save_project" /\ last.res.ok
    /\ last.overtaken = {3}
    /\ \E r \in projects : r.created_at = 1 /\ r.updated_at = 2
    /\ ProjectIsRequest(projects, messages, last.res.val, last.arg)

\* C24: a save_project holds one connection of the pool from pool.begin()
\* to its return, whichever way it returns, and no connection after it: the
\* connections checked out are those of the saves in flight, none when no
\* save is in flight, and never more than the pool's five.
C24_ConnectionsReleased ==
    /\ checked_out = BagCardinality(inflight)
    /\ inflight = EmptyBag => checked_out = 0
    /\ checked_out <= MaxConnections

\* five saves hold the five connections, and a sixth save_project has
\* returned the error of pool.begin()
C24_Witness ==
    /\ checked_out = MaxConnections
    /\ BagCardinality(inflight) = MaxConnections
    /\ ~last.res.ok /\ last.res.err = "Failed to start transaction"


(***************************************************************************)
(* Properties of message rows.                                             *)
(***************************************************************************)
\* C31: within a project no two stored messages have the same created_at.
C31_MessagesStrictlyAscending ==
    \A x, y \in messages :
        (x.project_id = y.project_id /\ x.id # y.id) => x.created_at # y.created_at


(***************************************************************************)
(* Properties of the keychain probe.                                       *)
(***************************************************************************)
\* the nine pairs in the order of the claim: services outer, accounts inner
NinePairs ==
    << <<"com.anthropic.claude-code", "default">>,
       <<"com.anthropic.claude-code", "api_key">>,
       <<"com.anthropic.claude-code", "credentials">>,
       <<"claude-code", "default">>,
       <<"claude-code", "api_key">>,
       <<"claude-code", "credentials">>,
       <<"anthropic-claude", "default">>,
       <<"anthropic-claude", "api_key">>,
       <<"anthropic-claude", "credentials">> >>

\* the entry holds a JSON credential record
IsJsonRecord(kc, e) ==
    kc[e] # None /\ kc[e][1].json # None /\ "api_key" \in DOMAIN kc[e][1].json[1]

\* the entry holds a text that begins with "sk-ant-"
HasKeyPrefix(kc, e) == kc[e] # None /\ str_starts_with(kc[e][1].text, "sk-ant-")

Accepted(kc, e) == IsJsonRecord(kc, e) \/ HasKeyPrefix(kc, e)

\* C32: the pairs are probed in the fixed order, services outer and accounts
\* inner; no pair is probed after one that holds a JSON credential record or a
\* text with the prefix "sk-ant-"; the function returns the credential of the
\* first such pair (the record, or the text as api_key with no email and no
\* tier), and its error when there is none, having probed all nine.
C32_FirstMatchWins ==
    last.op = "read_claude_code_keychain" =>
        /\ Len(last.probed) <= Len(NinePairs)
        /\ \A i \in DOMAIN last.probed : last.probed[i] = NinePairs[i]
        /\ \A i \in DOMAIN last.probed :
               i < Len(last.probed) => ~Accepted(keychain, last.probed[i])
        /\ last.done =>
             LET n == Len(last.probed)
                 e == last.probed[n]
             IN /\ last.res.ok <=> Accepted(keychain, e)
                /\ last.res.ok <=> \E j \in DOMAIN NinePairs : Accepted(keychain, NinePairs[j])
                /\ ~last.res.ok => n = Len(NinePairs)
                /\ (last.res.ok /\ IsJsonRecord(keychain, e)) =>
                      /\ last.res.val.api_key = keychain[e][1].json[1].api_key
                      /\ last.res.val.email = Some(keychain[e][1].json[1].email)
                /\ (last.res.ok /\ ~IsJsonRecord(keychain, e)) =>
                      /\ last.res.val.api_key = keychain[e][1].text
                      /\ last.res.val.email = None
                      /\ last.res.val.subscription_tier = None
                /\ last.res = read_claude_code_keychain(keychain)

\* the first pair holds a text without the prefix, the second a JSON object
\* without api_key, the fourth a raw key, which is returned, and the ninth
\* another raw key, which was not probed
C32_Witness ==
    /\ last.op = "read_claude_code_keychain" /\ last.done /\ last.res.ok
    /\ Len(last.probed) = 4
    /\ keychain[NinePairs[1]] = Some(OtherPassword)
    /\ keychain[NinePairs[2]] = Some(JsonWithoutKey)
    /\ keychain[NinePairs[4]] = Some(RawKeyPassword)
    /\ keychain[NinePairs[9]] = Some(OtherRawKeyPassword)
    /\ last.res.val.api_key = "sk-ant-keychain-raw"


(***************************************************************************)
(* Properties of message ids.                                              *)
(***************************************************************************)
\* the list has one id twice
RepeatsAnId(msgs) == \E i, j \in DOMAIN msgs : i # j /\ msgs[i].id = msgs[j].id

\* an id of the list is the id of a stored message of a project other than `target`
UsedElsewhere(msgs, m, target) ==
    \E i \in DOMAIN msgs : \E x \in m : x.id = msgs[i].id /\ x.project_id # target

\* C36: no two stored messages have the same id; a save_project whose list
\* has an id twice, or an id of a stored message of a project other than the
\* one it writes, returns an error, and the projects and messages of the
\* store are then what they were before the call.
C36_MessageIdsUnique ==
    /\ [](\A x, y \in messages : x.id = y.id => x = y)
    /\ [][SaveStep =>
            /\ RepeatsAnId(last'.arg.messages) => ~last'.res.ok
            /\ (last'.arg.project_id # None
                /\ UsedElsewhere(last'.arg.messages, messages, last'.arg.project_id[1]))
                    => ~last'.res.ok
            /\ last'.res.ok => ~UsedElsewhere(last'.arg.messages, messages, last'.res.val)
            /\ ~last'.res.ok => (projects' = projects /\ messages' = messages)]_vars

\* a save for a second project whose list has the id of a message of the
\* first has failed at the message; the first project and its message stay
C36_Witness ==
    /\ last.op = "save_project" /\ last.res = Err("Failed to insert message")
    /\ ~RepeatsAnId(last.arg.messages)
    /\ last.arg.project_id # None
    /\ UsedElsewhere(last.arg.messages, messages, last.arg.project_id[1])
    /\ \A r \in projects : r.id # last.arg.project_id[1]
    /\ \E x \in messages : \E r \in projects : x.project_id = r.id


(***************************************************************************)
(* Properties of the status returned by check_auth_status.                 *)
(***************************************************************************)
\* C39: check_auth_status returns Ok in every case.  When the keychain gives
\* nothing, and when validate_api_key returns an error or false, the next
\* step is the lookup in the database; when that lookup fails or finds no
\* row the status is (false, "none").  The source is one of "keychain",
\* "database" and "none", and authenticated is false exactly when it is "none".
C39_StatusNeverAnError ==
    [][CheckReturns =>
        LET t == last'.trace
            n == Len(last'.trace)
        IN /\ last'.res.ok
           /\ last'.res.val.source \in {"keychain", "database", "none"}
           /\ ~last'.res.val.authenticated <=> last'.res.val.source = "none"
           /\ t[1].step = "keychain"
           /\ t[1].outcome = "none" => (n = 2 /\ t[2].step = "load")
           /\ \A i \in 1..n :
                (t[i].step = "validate" /\ t[i].outcome # "valid")
                    => (n = i + 1 /\ t[i + 1].step = "load")
           /\ (t[n].step = "load" /\ t[n].outcome # "found")
                    => last'.res = NotAuthenticated
           /\ (t[n].step = "store" /\ t[n].outcome = "error")
                    => last'.res.val.source = "keychain"]_vars

\* the keychain held a key, its validation ended in an error, the lookup in
\* the database failed too, and the status returned is (false, "none")
C39_Witness ==
    /\ last.op = "check_claude_auth"
    /\ Len(last.trace) = 3
    /\ last.trace[1].outcome = "found"
    /\ last.trace[2] = TraceEntry("validate", last.trace[1].api_key, "error")
    /\ last.trace[3] = TraceEntry("load", "", "error")
    /\ credentials # {}
    /\ last.res = NotAuthenticated


\* the credentials the keychain holds for check_auth_status
KeychainCredentials == read_claude_code_keychain(keychain).val

\* the last step of the returned call's trace
LastStep(call) == call.trace[Len(call.trace)]

\* C38 as stated: a check_auth_status that reports the keychain has replaced
\* the stored row by the keychain's credentials, which get_credentials then
\* returns; one that reports the database or none has left the table as it was.
C38_KeychainPathReplacesRow ==
    [][CheckReturns =>
        IF last'.res.val.source = "keychain"
        THEN load_credentials_from_db(credentials', FALSE) = Ok(KeychainCredentials)
        ELSE credentials' = credentials]_vars

\* C38, with the write that fails: a check_auth_status changes table
\* auth_credentials only when it reports the keychain.  When its write
\* succeeds the table holds one row, the keychain's credentials, whatever it
\* held before, and get_credentials returns them; when its write fails the
\* table is what it was and the status is the keychain's all the same.
C38_KeychainPathReplacesRowUnlessWriteFails ==
    [][CheckReturns =>
        /\ credentials' # credentials => last'.res.val.source = "keychain"
        /\ last'.res.val.source = "keychain" =>
             /\ LastStep(last').step = "store"
             /\ IF LastStep(last').outcome = "ok"
                THEN /\ load_credentials_from_db(credentials', FALSE) = Ok(KeychainCredentials)
                     /\ Cardinality(credentials') = 1
                ELSE credentials' = credentials
        /\ last'.res.val.source # "keychain" => credentials' = credentials]_vars

\* the manually entered key is stored, check_auth_status has reported the
\* keychain, its write failed, and get_credentials returns the manual key
C38_Witness ==
    /\ last.op = "check_claude_auth" /\ last.res.ok
    /\ last.res.val.source = "keychain"
    /\ LastStep(last) = TraceEntry("store", KeychainCredentials.api_key, "error")
    /\ load_credentials_from_db(credentials, FALSE).ok
    /\ load_credentials_from_db(credentials, FALSE).val.api_key = "sk-ant-manual"

(***************************************************************************)
(* Properties of load_settings on stored rows.                             *)
(***************************************************************************)
\* the value stored under the key, "(no row)" when there is none
Stored(key) ==
    IF \E r \in settings : r.key = key
    THEN (CHOOSE r \in settings : r.key = key).value ELSE "(no row)"

\* C33: whatever the rows hold, load_settings returns Ok.  auto_save is false
\* only for the stored value "false": every value that is not a boolean
\* gives true.  An empty stored api key gives no api key.  Rows with other
\* keys change nothing: the result is that of the table without them.
C33_LoadToleratesRowContents ==
    last.op = "load_settings" =>
        /\ last.res.ok
        /\ last.res.val.auto_save = (Stored("auto_save") # "false")
        /\ Stored("anthropic_api_key") \in {"", "(no row)"}
                => last.res.val.anthropic_api_key = None
        /\ Stored("anthropic_api_key") \notin {"", "(no row)"}
                => last.res.val.anthropic_api_key = Some(Stored("anthropic_api_key"))
        /\ last.res.val.theme =
                IF Stored("theme") = "(no row)" THEN "dark" ELSE Stored("theme")
        /\ last.res.val.default_project_path =
                IF Stored("default_project_path") = "(no row)"
                THEN "~/Documents/Vibing2Projects" ELSE Stored("default_project_path")
        /\ last.res.val = LoadSettings({r \in settings : r.key # "window_size"})

\* the table holds auto_save = "yes", an empty api key and a row with a key
\* that is not a setting, and load_settings returned auto_save = true and no key
C33_Witness ==
    /\ last.op = "load_settings" /\ last.res.ok
    /\ Stored("auto_save") = "yes"
    /\ Stored("anthropic_api_key") = ""
    /\ Stored("window_size") = "false"
    /\ last.res.val.auto_save
    /\ last.res.val.anthropic_api_key = None

(***************************************************************************)
(* Properties of a repeated save.                                          *)
(***************************************************************************)
\* the step is a save_project that repeats the save_project before it, which
\* succeeded: the same fields and messages, for the id that call returned
ResaveStep ==
    /\ SaveStep
    /\ last.op = "save_project" /\ last.res.ok
    /\ last'.arg = [last.arg EXCEPT !.project_id = Some(last.res.val)]

\* the statements of the repeated save run with no failure of the backend
ResaveWithoutFault ==
    SaveProjectTx(Db(projects, messages), last'.arg, last.res.val, clock',
                  [stmt |-> "none", index |-> 0])

\* the project rows, the row of project_id with updated_at set to now
Touched(p, project_id, now) ==
    {IF r.id = project_id THEN [r EXCEPT !.updated_at = now] ELSE r : r \in p}

Others(p, m, project_id) ==
    Db({r \in p : r.id # project_id}, {x \in m : x.project_id # project_id})

\* C37: a save_project that writes project X and a delete_project of X leave
\* the rows and the messages of every other project as they were, and the
\* tables settings, auth_credentials and users too; a save_project that
\* fails, load_project, list_projects, load_settings and get_credentials
\* change no table.
C37_OtherRowsUntouched ==
    [][/\ settings' = settings /\ credentials' = credentials /\ users' = users
       /\ schema' = schema
       /\ (SaveStep /\ last'.res.ok) =>
             Others(projects', messages', last'.res.val)
                = Others(projects, messages, last'.res.val)
       /\ (SaveStep /\ ~last'.res.ok) => (projects' = projects /\ messages' = messages)
       /\ last'.op = "delete_project" =>
             Others(projects', messages', last'.arg) = Others(projects, messages, last'.arg)
       /\ last'.op \in {"load_project", "list_projects", "load_settings", "get_credentials"}
             => (projects' = projects /\ messages' = messages)]_vars

\* a project was saved over, with a new message, while the earlier project,
\* its message, the settings and the credential are in the store
C37_Witness ==
    /\ last.op = "save_project" /\ last.res.ok /\ last.arg.project_id # None
    /\ \E r \in projects : r.id = last.res.val /\ r.created_at < r.updated_at
    /\ \E x \in messages : x.project_id = last.res.val
    /\ Others(projects, messages, last.res.val) = EarlierProject
    /\ settings = EarlierSettings
    /\ credentials = EarlierCredentials

(***************************************************************************)
(* Properties of load_project beside writers.                              *)
(***************************************************************************)
\* C34: the project that load_project returns is the project of one
\* committed state of the store.  Every committed state of the project of
\* SpecLoad holds the fields and the one message of one request, so the
\* fields and the messages returned are those of one request.
C34_LoadIsSnapshot ==
    (last.op = "load_project" /\ last.res.ok) =>
        \E request \in TxRequests :
            /\ last.res.val.name = request.name
            /\ last.res.val.project_type = request.project_type
            /\ last.res.val.messages = request.messages

(***************************************************************************)
(* Properties of the shared pool.                                          *)
(***************************************************************************)
\* a step in which a call of get_pool returns
GetPoolReturns ==
    /\ last'.op = "get_pool"
    /\ \/ BagCardinality(inflight') < BagCardinality(inflight)
       \/ inflight' = inflight /\ DB_POOL'.calls # DB_POOL.calls

\* C40: outside test mode at most one pool is ever opened, the cell is
\* empty until then and holds that pool from then on, and every call that
\* returns Ok returns the pool of the cell; a call whose initialiser fails
\* returns the failure and leaves the cell empty and free for the next
\* caller.  In test mode the cell stays empty and every call that returns
\* Ok returns a pool opened by that call.
C40_PoolInitialisedOnce ==
    /\ [](~DB_POOL.test_mode =>
            /\ DB_POOL.opened <= 1
            /\ DB_POOL.cell = IF DB_POOL.opened = 0 THEN None ELSE Some(1))
    /\ [](DB_POOL.test_mode => DB_POOL.cell = None)
    /\ [][(GetPoolReturns /\ ~DB_POOL.test_mode) =>
            /\ last'.res.ok => DB_POOL'.cell = Some(last'.res.val)
            /\ ~last'.res.ok =>
                  /\ DB_POOL'.cell = None /\ DB_POOL'.opened = 0
                  /\ PermitFree(DB_POOL')
                  /\ DB_POOL'.failures = DB_POOL.failures + 1
            /\ DB_POOL.cell # None => (last'.res.ok /\ DB_POOL'.cell = DB_POOL.cell)]_vars
    /\ [][(GetPoolReturns /\ DB_POOL.test_mode) =>
            (last'.res.ok => (/\ DB_POOL'.opened = DB_POOL.opened + 1
                              /\ last'.res.val = DB_POOL'.opened))]_vars

\* three commands have called get_pool at once: the initialiser of one has
\* failed, another has then opened the pool and got it, and the third is
\* still waiting for its turn at the cell
C40_Witness ==
    /\ ~DB_POOL.test_mode /\ DB_POOL.calls = 3 /\ DB_POOL.failures = 1
    /\ DB_POOL.cell = Some(1) /\ DB_POOL.opened = 1
    /\ last.op = "get_pool" /\ last.res = Ok(1)
    /\ inflight = SetToBag({PoolCaller("acquire")})
====
